---- MODULE Spec2Model ----
(***************************************************************************)
(* Model of the fin_line tick pipeline (alim08/fin_line).                  *)
(*                                                                         *)
(*   - redisclient.Client: the circuit breaker in front of AddToStream,    *)
(*     HSet and Publish (SpecBreaker, FairBreaker);                        *)
(*   - cmd/ingest: the bounded events channel between a feed reader and    *)
(*     its writers (SpecIngest);                                           *)
(*   - cmd/normalize: the cursor, the admission semaphore and normalizeOne *)
(*     (SpecNormalize);                                                    *)
(*   - cmd/normalize + cmd/cachepub: raw:events -> normalized:events ->    *)
(*     quotes:latest / quotes:pubsub (SpecPipeline, FairPipeline).         *)
(*                                                                         *)
(* Every specification owns a group of variables and leaves the others at  *)
(* their initial value.                                                    *)
(***************************************************************************)
EXTENDS Integers, Sequences, FiniteSets, TLC

VARIABLES
    \* ---- redisclient.Client ------------------------------------------
    failureCount,   \* Client.failureCount (int64, atomic)
    lastFailure,    \* Client.lastFailure: 0 = never stored, 1 = a time stored
    state,          \* Client.state: 0 closed, 1 open, 2 half-open
    pc,             \* per goroutine: where it stands inside a Client call
    op,             \* per goroutine: the operation it is executing
    tries,          \* per goroutine: store commands issued by the current call
    healthy,        \* the store answers every command successfully from now on
    streak,         \* history: failures recorded since the last recorded success
    \* ---- cmd/ingest: one feed ------------------------------------------
    feed,           \* "ws" or "http": the reader ingestFeed dispatches to
    rpc,            \* where the feed reader stands
    batchLeft,      \* ingestHTTP: events of the decoded batch not yet offered
    events,         \* the buffered channel between the reader and the writers
    offered,        \* history: events the reader has offered so far (ids 1..offered)
    dropped,        \* history: ids discarded by the reader's default branch
    rawLog,         \* history: ids the writers appended to raw:events, in order
    pollFails,      \* history: failed polls of ingestHTTP
    ingestErrors,   \* metrics.IngestErrors
    ingestCounter,  \* metrics.IngestCounter
    ictxDone,       \* ingest: the root context is cancelled
    eventsClosed,   \* ingestFeed: close(events) has run
    wpc,            \* per writer of the feed: "run" or "returned"
    boInterval,     \* ingestWebSocket's bo: growth steps of currentInterval
    boElapsed,      \* ingestWebSocket's bo: clock ticks since bo's startTime
    \* ---- cmd/normalize ----------------------------------------------------
    raw,            \* the Values of the entries of raw:events, in stream order
    lastID,         \* startNormalization's cursor: 0 is "0-0", i the id of entry i
    npc,            \* where the normalizer's reader loop stands
    batch,          \* the identifiers of the messages of the current XREAD
    bi,             \* the position in batch of the message at hand
    inflight,       \* the messages whose task holds a slot of sem
    active,         \* the messages whose goroutine has not returned
    done,           \* history: how each entry of raw:events ended
    seen,           \* history: the messages taken to admission, in order
    doneAtAdmit,    \* history: the tasks that had returned when a task started
    normalized,     \* the entries of normalized:events, in stream order
    normalizeErrors,    \* metrics.NormalizeErrors
    normalizeCounter,   \* metrics.NormalizeCounter
    ctxDone,        \* the root context of the normalizer is cancelled
    \* ---- cmd/cachepub -----------------------------------------------------
    plast,          \* runCachePub's cursor into normalized:events
    ppc,            \* where the publisher's loop stands
    pctxDone,       \* the context of the publisher is cancelled
    pbatch,         \* the identifiers of the messages of the current XREAD
    pbi,            \* the position in pbatch of the message at hand
    latest,         \* the hashes quotes:latest:<ticker>, by ticker
    pubsub,         \* history: the ticks published on quotes:pubsub, in order
    applied,        \* history: the entries handled since the publisher started
    restarts,       \* history: restarts of the publisher
    cachePubErrors,     \* metrics.CachePubErrors
    cachePubCounter,    \* metrics.CachePubCounter
    \* ---- cmd/anomaly ------------------------------------------------------
    cfg,            \* config.Config: AnomalyWindowSize, AnomalyThreshold
    dpc,            \* where runAnomalyDetector stands
    dctxDone,       \* the context of the detector is cancelled
    subClosed,      \* the channel of the quotes:pubsub subscription is closed
    windows,        \* the rollingWindow of each ticker seen
    hist,           \* history: the prices added to each ticker's window
    heard,          \* history: the messages received from quotes:pubsub
    emitted,        \* history: the calls of emitAnomaly, in order
    anomStream,     \* the entries of anomalies:stream
    anomIndex,      \* the members of the sorted sets anomalies:<ticker>
    anomalyErrors,  \* metrics.AnomalyErrors
    anomalyCounter, \* metrics.AnomalyCounter
    \* ---- pkg/models, pkg/config: functions called on their own ------------
    fnIn,           \* the argument of the call
    fnOut,          \* what the call returned (NotCalled before it)
    \* ---- graph.Resolver and the anomalies list -------------------------
    alist,          \* the Redis list "anomalies", head first
    nextId,         \* the id the next CreateAnomaly makes
    upd,            \* UpdateAnomaly: where it stands, its id and the index it found
    del             \* DeleteAnomaly: where it stands and the element it found

cbVars == <<failureCount, lastFailure, state, pc, op, tries, healthy, streak>>

ingVars == <<feed, rpc, batchLeft, events, offered, dropped, rawLog, pollFails,
             ingestErrors, ingestCounter, ictxDone, eventsClosed, wpc,
             boInterval, boElapsed>>

normVars == <<raw, lastID, npc, batch, bi, inflight, active, done, seen, doneAtAdmit,
              normalized, normalizeErrors, normalizeCounter, ctxDone>>

pubVars == <<plast, ppc, pctxDone, pbatch, pbi, latest, pubsub, applied, restarts,
             cachePubErrors, cachePubCounter>>

detVars == <<cfg, dpc, dctxDone, subClosed, windows, hist, heard, emitted, anomStream, anomIndex,
             anomalyErrors, anomalyCounter>>

fnVars == <<fnIn, fnOut>>

apiVars == <<alist, nextId, upd, del>>

vars == <<cbVars, ingVars, normVars, pubVars, detVars, fnVars, apiVars>>

----------------------------------------------------------------------------
(* cmd/ingest: ingestFeed, ingestWebSocket, ingestHTTP                     *)

\* events := make(chan map[string]interface{}, 1000)
EventsCap == 1000

\* "for i := 0; i < 5; i++": the writers of one feed.
NumWriters == 5

Writers == 1..NumWriters

\* Events offered beyond the channel's capacity.
MaxExtra == 3

\* Events the writers receive in one run (a writer inside AddToStream's
\* backoff receives nothing).
MaxTake == 2

\* Events in one decoded HTTP batch.
MaxBatch == 2

\* Failed polls in one run.
MaxPollFails == 1

MaxOffered == EventsCap + MaxExtra

\* Events the writers have received so far.
Received == offered - Len(events) - Cardinality(dropped)

\* The ingest variables of a process that runs no feed.
IngestIdle ==
    /\ feed = "none"
    /\ rpc = "none"
    /\ batchLeft = 0
    /\ events = <<>>
    /\ offered = 0
    /\ dropped = {}
    /\ rawLog = <<>>
    /\ pollFails = 0
    /\ ingestErrors = 0
    /\ ingestCounter = 0
    /\ ictxDone = FALSE
    /\ eventsClosed = FALSE
    /\ wpc = [w \in Writers |-> "none"]
    /\ boInterval = 0
    /\ boElapsed = 0

\* ingestFeed: the channel is made, the writers are started and the reader
\* is chosen by the URL's prefix.
IngestInit ==
    /\ feed \in {"ws", "http"}
    /\ rpc = IF feed = "ws" THEN "dial" ELSE "poll"
    /\ batchLeft = 0
    /\ events = <<>>
    /\ offered = 0
    /\ dropped = {}
    /\ rawLog = <<>>
    /\ pollFails = 0
    /\ ingestErrors = 0
    /\ ingestCounter = 0
    /\ ictxDone = FALSE
    /\ eventsClosed = FALSE
    /\ wpc = [w \in Writers |-> "run"]
    /\ boInterval = 0
    /\ boElapsed = 0

\* ingestWebSocket: the select at the top of the read loop: a cancelled
\* context returns backoff.Permanent(ctx.Err()), which ends backoff.Retry and
\* the reader; otherwise the reader enters conn.ReadJSON.
LoopTop(cancelled) == IF cancelled THEN "close" ELSE "read"

\* Growth steps after which currentInterval stays at MaxInterval.
MaxBoSteps == 2

\* Clock ticks that make up ExponentialBackOff's MaxElapsedTime (15 minutes
\* in backoff.NewExponentialBackOff).
MaxElapsedTicks == 2

\* backoff.WithContext(bo, ctx).NextBackOff() is backoff.Stop: the context is
\* cancelled, or MaxElapsedTime has passed since bo was last reset.
\* backoff.Retry resets bo once, before the first attempt; ingestWebSocket
\* never resets it.
BackOffStops(cancelled, elapsed) == cancelled \/ elapsed >= MaxElapsedTicks

\* backoff.Retry after a failed operation: it ends with the error on
\* backoff.Stop, which ends the reader, and runs the operation (the dial)
\* again otherwise.
AfterFailure(cancelled, elapsed) ==
    IF BackOffStops(cancelled, elapsed) THEN "close" ELSE "dial"

\* ExponentialBackOff.incrementCurrentInterval, up to MaxInterval.
NextInterval(n) == IF n < MaxBoSteps THEN n + 1 ELSE n

\* ingestWebSocket: websocket.DefaultDialer.Dial; a failure returns to
\* backoff.Retry.
WsDial(ok) ==
    /\ rpc = "dial"
    /\ rpc' = IF ok THEN LoopTop(ictxDone)
              ELSE AfterFailure(ictxDone, boElapsed)
    /\ boInterval' = IF ok \/ ictxDone THEN boInterval
                     ELSE NextInterval(boInterval)
    /\ UNCHANGED <<feed, batchLeft, events, offered, dropped, rawLog, pollFails,
                   ingestErrors, ingestCounter, ictxDone, eventsClosed, wpc,
                   boElapsed>>

\* ingestWebSocket: conn.ReadJSON(&msg) returns: the feed has delivered a
\* message, or the connection has failed; the error returns to
\* backoff.Retry. The call has no deadline and does not watch the context:
\* until the feed delivers or fails, the reader stays in it. A received
\* message leaves bo as it is.
WsRead(ok) ==
    /\ rpc = "read"
    /\ ok => offered < MaxOffered
    /\ rpc' = IF ok THEN "send" ELSE AfterFailure(ictxDone, boElapsed)
    /\ batchLeft' = IF ok THEN 1 ELSE 0
    /\ boInterval' = IF ok \/ ictxDone THEN boInterval
                     ELSE NextInterval(boInterval)
    /\ UNCHANGED <<feed, events, offered, dropped, rawLog, pollFails,
                   ingestErrors, ingestCounter, ictxDone, eventsClosed, wpc,
                   boElapsed>>

\* Time passes while the streaming reader runs: bo's elapsed time grows
\* whether the connection is up or down.
BoTick ==
    /\ feed = "ws"
    /\ rpc \in {"dial", "read", "send"}
    /\ boElapsed < MaxElapsedTicks
    /\ boElapsed' = boElapsed + 1
    /\ UNCHANGED <<feed, rpc, batchLeft, events, offered, dropped, rawLog,
                   pollFails, ingestErrors, ingestCounter, ictxDone,
                   eventsClosed, wpc, boInterval>>

\* ingestHTTP: one tick of the poll: client.Get, the status test and the
\* decoding of the batch; any failure counts one ingest error.
Poll(ok, n) ==
    /\ UNCHANGED <<boInterval, boElapsed>>
    /\ rpc = "poll"
    /\ IF ok
       THEN /\ offered + n <= MaxOffered
            /\ batchLeft' = n
            /\ rpc' = IF n = 0 THEN "poll" ELSE "send"
            /\ UNCHANGED <<pollFails, ingestErrors>>
       ELSE /\ pollFails < MaxPollFails
            /\ pollFails' = pollFails + 1
            /\ ingestErrors' = ingestErrors + 1
            /\ UNCHANGED <<batchLeft, rpc>>
    /\ UNCHANGED <<feed, events, offered, dropped, rawLog, ingestCounter,
                   ictxDone, eventsClosed, wpc>>

\* ingestHTTP: "case <-ctx.Done(): return" of the poll loop's select.
HttpReturn ==
    /\ UNCHANGED <<boInterval, boElapsed>>
    /\ rpc = "poll"
    /\ ictxDone
    /\ rpc' = "close"
    /\ UNCHANGED <<feed, batchLeft, events, offered, dropped, rawLog, pollFails,
                   ingestErrors, ingestCounter, ictxDone, eventsClosed, wpc>>

\* Mutant of HasRoom: the capacity test off by one.
HasRoomOffByOne(ch) == Len(ch) <= EventsCap

\* Whether a send on the buffered channel can proceed at once.
HasRoom(ch) == Len(ch) < EventsCap

\* select { case events <- msg: default: IngestErrors.Inc() } of both readers.
Offer ==
    /\ UNCHANGED <<boInterval, boElapsed>>
    /\ rpc = "send"
    /\ offered' = offered + 1
    /\ IF HasRoom(events)
       THEN /\ events' = Append(events, offered + 1)
            /\ UNCHANGED <<dropped, ingestErrors>>
       ELSE /\ dropped' = dropped \cup {offered + 1}
            /\ ingestErrors' = ingestErrors + 1
            /\ UNCHANGED events
    /\ batchLeft' = batchLeft - 1
    /\ rpc' = IF batchLeft > 1 THEN "send"
              ELSE IF feed = "ws" THEN LoopTop(ictxDone) ELSE "poll"
    /\ UNCHANGED <<feed, rawLog, pollFails, ingestCounter, ictxDone,
                   eventsClosed, wpc>>

\* A writer of ingestFeed: receive one event and AddToStream it to
\* raw:events; an error counts one ingest error.
WriterStep(w, ok) ==
    /\ UNCHANGED <<boInterval, boElapsed>>
    /\ feed # "none"
    /\ wpc[w] = "run"
    /\ events # <<>>
    /\ Received < MaxTake
    /\ events' = Tail(events)
    /\ IF ok
       THEN /\ rawLog' = Append(rawLog, Head(events))
            /\ ingestCounter' = ingestCounter + 1
            /\ UNCHANGED ingestErrors
       ELSE /\ ingestErrors' = ingestErrors + 1
            /\ UNCHANGED <<rawLog, ingestCounter>>
    /\ UNCHANGED <<feed, rpc, batchLeft, offered, dropped, pollFails, ictxDone,
                   eventsClosed, wpc>>

\* Mutant of MayReturn: a writer returns as soon as the channel is closed.
MayReturnOnClose(cancelled, closed, ch) == cancelled \/ closed

\* The select of a writer can take a returning case: ctx.Done() is closed,
\* or the receive reports !ok, which a closed channel does once the events
\* buffered in it are received.
MayReturn(cancelled, closed, ch) == cancelled \/ (closed /\ ch = <<>>)

\* A writer of ingestFeed returns: "case <-ctx.Done(): return", or the
\* receive reports the channel closed and drained ("if !ok { return }").
WriterReturn(w) ==
    /\ UNCHANGED <<boInterval, boElapsed>>
    /\ wpc[w] = "run"
    /\ MayReturn(ictxDone, eventsClosed, events)
    /\ wpc' = [wpc EXCEPT ![w] = "returned"]
    /\ UNCHANGED <<feed, rpc, batchLeft, events, offered, dropped, rawLog,
                   pollFails, ingestErrors, ingestCounter, ictxDone,
                   eventsClosed>>

\* ingestFeed: close(events), once the reader has returned.
CloseEvents ==
    /\ UNCHANGED <<boInterval, boElapsed>>
    /\ rpc = "close"
    /\ rpc' = "done"
    /\ eventsClosed' = TRUE
    /\ UNCHANGED <<feed, batchLeft, events, offered, dropped, rawLog, pollFails,
                   ingestErrors, ingestCounter, ictxDone, wpc>>

\* cmd/ingest main: cancel() of the root context on SIGINT or SIGTERM.
IngestCancel ==
    /\ UNCHANGED <<boInterval, boElapsed>>
    /\ feed # "none"
    /\ ~ictxDone
    /\ ictxDone' = TRUE
    /\ UNCHANGED <<feed, rpc, batchLeft, events, offered, dropped, rawLog,
                   pollFails, ingestErrors, ingestCounter, eventsClosed, wpc>>

----------------------------------------------------------------------------
(* redisclient.Client                                                      *)

\* Goroutines that share one Client (ingest writers, normalizer tasks).
Threads == {"g1", "g2"}

\* The operations guarded by the breaker.
Ops == {"xadd", "hset", "publish"}

Closed == 0
Open == 1
HalfOpen == 2

\* checkCircuitBreaker: "if atomic.LoadInt64(&c.failureCount) >= 5".
FailureThreshold == 5

\* backoff.WithMaxRetries(..., 3): the first attempt plus at most 3 retries.
MaxRetries == 3

\* Cap on failureCount, which the code lets grow without limit.
MaxFailures == 7

\* Mutant of MaxAttempts: one attempt more.
MaxAttemptsOneMore(o) == IF o = "publish" THEN 1 ELSE 2 + MaxRetries

\* Attempts one call of operation o may make.
MaxAttempts(o) == IF o = "publish" THEN 1 ELSE 1 + MaxRetries

\* Failure bookkeeping that is pending (result known, counter not yet bumped).
PendingAdds == Cardinality({t \in Threads : pc[t] = "cb_add"})

CBInit ==
    /\ failureCount = 0
    /\ lastFailure = 0
    /\ state = Closed
    /\ pc = [t \in Threads |-> "idle"]
    /\ op = [t \in Threads |-> "none"]
    /\ tries = [t \in Threads |-> 0]
    /\ healthy = FALSE
    /\ streak = 0

\* The breaker test at the head of AddToStream / HSet / Publish.
BreakerRejects(s) == s = Open

\* A call begins: atomic.LoadInt32(&c.state) == 1 -> ErrCircuitBreakerOpen.
Call(t, o) ==
    /\ pc[t] = "idle"
    /\ op' = [op EXCEPT ![t] = o]
    /\ tries' = [tries EXCEPT ![t] = 0]
    /\ pc' = [pc EXCEPT ![t] = IF BreakerRejects(state) THEN "ret_open" ELSE "attempt"]
    /\ UNCHANGED <<failureCount, lastFailure, state, healthy, streak>>

\* One store command (XAdd / HSet / Publish) under its deadline, answered
\* with success or with an error.
Attempt(t, ok) ==
    /\ pc[t] = "attempt"
    /\ healthy => ok
    /\ ~ok => failureCount + PendingAdds < MaxFailures
    /\ tries' = [tries EXCEPT ![t] = @ + 1]
    /\ pc' = [pc EXCEPT ![t] = IF ok THEN "cb_reset" ELSE "cb_add"]
    /\ UNCHANGED <<failureCount, lastFailure, state, op, healthy, streak>>

\* checkCircuitBreaker(err != nil): AddInt64(&failureCount, 1) and
\* StoreInt64(&lastFailure, now); lastFailure is never read.
CbAdd(t) ==
    /\ pc[t] = "cb_add"
    /\ failureCount' = failureCount + 1
    /\ lastFailure' = 1
    /\ streak' = streak + 1
    /\ pc' = [pc EXCEPT ![t] = "cb_load"]
    /\ UNCHANGED <<state, op, tries, healthy>>

\* Mutant of AfterAttempt: a failed attempt is not retried.
AfterAttemptNoRetry(t, ok) == IF ok THEN "ret_ok" ELSE "ret_err"

\* What the caller does with the outcome of one attempt: backoff.Retry runs
\* the operation again while it fails and retries remain.
AfterAttempt(t, ok) ==
    IF ok THEN "ret_ok"
    ELSE IF tries[t] < MaxAttempts(op[t]) THEN "attempt"
    ELSE "ret_err"

\* Mutant of ReachedThreshold: an off-by-one threshold test.
ReachedThresholdLate(n) == n > FailureThreshold

\* The threshold test of checkCircuitBreaker.
ReachedThreshold(n) == n >= FailureThreshold

\* checkCircuitBreaker(err != nil): LoadInt64(&failureCount) >= 5.
CbLoad(t) ==
    /\ pc[t] = "cb_load"
    /\ pc' = [pc EXCEPT ![t] = IF ReachedThreshold(failureCount) THEN "cb_cas"
                                ELSE AfterAttempt(t, FALSE)]
    /\ UNCHANGED <<failureCount, lastFailure, state, op, tries, healthy, streak>>

\* atomic.CompareAndSwapInt32(&c.state, old, new)
CompareAndSwap(s, old, new) == IF s = old THEN new ELSE s

\* Mutant of OpenOnFailure: the failure branch leaves the state alone.
StaysOnFailure(s) == s

\* The state after the failure branch's CompareAndSwapInt32(&c.state, 0, 1).
OpenOnFailure(s) == CompareAndSwap(s, Closed, Open)

\* Mutant of HalfOpenOnSuccess: a success in half-open closes the breaker.
ClosedOnSuccess(s) ==
    IF s = HalfOpen THEN Closed ELSE CompareAndSwap(s, Open, HalfOpen)

\* The state after the success branch's CompareAndSwapInt32(&c.state, 1, 2).
HalfOpenOnSuccess(s) == CompareAndSwap(s, Open, HalfOpen)

\* checkCircuitBreaker(err != nil): closed -> open.
CbCas(t) ==
    /\ pc[t] = "cb_cas"
    /\ state' = OpenOnFailure(state)
    /\ pc' = [pc EXCEPT ![t] = AfterAttempt(t, FALSE)]
    /\ UNCHANGED <<failureCount, lastFailure, op, tries, healthy, streak>>

\* The counter after the success branch's StoreInt64(&c.failureCount, 0).
ResetCount(n) == 0

\* checkCircuitBreaker(nil): StoreInt64(&failureCount, 0).
CbReset(t) ==
    /\ pc[t] = "cb_reset"
    /\ failureCount' = ResetCount(failureCount)
    /\ streak' = 0
    /\ pc' = [pc EXCEPT ![t] = "cb_half"]
    /\ UNCHANGED <<lastFailure, state, op, tries, healthy>>

\* checkCircuitBreaker(nil): open -> half-open.
CbHalf(t) ==
    /\ pc[t] = "cb_half"
    /\ state' = HalfOpenOnSuccess(state)
    /\ pc' = [pc EXCEPT ![t] = AfterAttempt(t, TRUE)]
    /\ UNCHANGED <<failureCount, lastFailure, op, tries, healthy, streak>>

\* The call returns to its caller (nil, the last error, or
\* ErrCircuitBreakerOpen).
Return(t) ==
    /\ pc[t] \in {"ret_ok", "ret_err", "ret_open"}
    /\ pc' = [pc EXCEPT ![t] = "idle"]
    /\ op' = [op EXCEPT ![t] = "none"]
    /\ tries' = [tries EXCEPT ![t] = 0]
    /\ UNCHANGED <<failureCount, lastFailure, state, healthy, streak>>

\* Environment: from here on the store answers every command successfully.
Heal ==
    /\ ~healthy
    /\ healthy' = TRUE
    /\ UNCHANGED <<failureCount, lastFailure, state, pc, op, tries, streak>>

ThreadNext(t) ==
    \/ \E o \in Ops : Call(t, o)
    \/ \E ok \in BOOLEAN : Attempt(t, ok)
    \/ CbAdd(t)
    \/ CbLoad(t)
    \/ CbCas(t)
    \/ CbReset(t)
    \/ CbHalf(t)
    \/ Return(t)

----------------------------------------------------------------------------
(* pkg/validation and pkg/models: values, sanitizers, RawTickFromMap       *)

\* A float64 price as an exact decimal: whole units and billionths of a unit
\* (a negative price has whole < 0).
Price(w, n) == [whole |-> w, nano |-> n]

\* An instant: milliseconds since the epoch and the nanoseconds past them.
Instant(ms, sub) == [ms |-> ms, sub |-> sub]

\* Values of a map[string]interface{}. Every value read back from the store
\* is a string; a string is kept by what the parsers make of it: a decimal
\* numeral, an RFC3339Nano time, or any other text. A map built in the
\* program can also hold a float64 or a value of another type (bool, int).
Absent == [t |-> "absent"]
Float(w, n) == [t |-> "float64", val |-> Price(w, n)]
OtherValue == [t |-> "other"]
NumText(w, n) == [t |-> "str", form |-> "numeral", val |-> Price(w, n)]
RfcText(ms, sub) == [t |-> "str", form |-> "rfc3339", at |-> Instant(ms, sub)]
Text(s) == [t |-> "str", form |-> "other", s |-> s]

\* The clock reading (ms since the epoch) while the entries are parsed.
NowMs == 100000000

\* 24 * time.Hour in milliseconds.
DayMs == 24 * 60 * 60 * 1000

\* Mutant of ParseFloat: every string is read as a number.
ParseFloatAny(x) ==
    [ok |-> TRUE, val |-> IF x.form = "numeral" THEN x.val ELSE Price(1, 0)]

\* strconv.ParseFloat(v, 64)
ParseFloat(x) ==
    IF x.form = "numeral" THEN [ok |-> TRUE, val |-> x.val]
    ELSE [ok |-> FALSE, val |-> Price(0, 0)]

\* strconv.ParseInt(v, 10, 64): a numeral without a fraction.
ParseInt(x) ==
    IF x.form = "numeral" /\ x.val.nano = 0 THEN [ok |-> TRUE, val |-> x.val.whole]
    ELSE [ok |-> FALSE, val |-> 0]

\* time.Parse(time.RFC3339Nano, v)
ParseTime(x) ==
    IF x.form = "rfc3339" THEN [ok |-> TRUE, val |-> x.at]
    ELSE [ok |-> FALSE, val |-> Instant(0, 0)]

\* time.UnixMilli(ms)
UnixMilliTime(ms) == Instant(ms, 0)

\* Time.UTC().UnixMilli(): the instant truncated to milliseconds.
UnixMilli(at) == at.ms

\* price <= 0
NotPositive(p) == p.whole < 0 \/ (p.whole = 0 /\ p.nano <= 0)

\* SanitizePrice / validatePrice: the upper limit of a price.
PriceLimit == 1000000

\* validation.SanitizePrice: 0.01 for a price <= 0, 1000000 for a greater one.
SanitizePrice(p) ==
    IF NotPositive(p) THEN Price(0, 10000000)
    ELSE IF p.whole > PriceLimit \/ (p.whole = PriceLimit /\ p.nano > 0)
         THEN Price(PriceLimit, 0)
    ELSE p

\* validation.SanitizeTimestamp: a time in the future or older than 24 h
\* becomes the current time.
SanitizeTimestamp(ms) ==
    IF ms > NowMs THEN NowMs
    ELSE IF ms < NowMs - DayMs THEN NowMs
    ELSE ms

\* validation.SanitizeString on the strings of the model: control characters
\* removed, then strings.TrimSpace.
SanitizeString(s) ==
    CASE s = " BTCUSD " -> "BTCUSD"
      [] s = " " -> ""
      [] OTHER -> s

\* tickerPattern ^[A-Z0-9]{1,10}$ on the strings of the model.
TickerPattern(s) == s \in {"BTCUSD", "ZZZ"}

\* sourcePattern ^[a-zA-Z0-9_-]{1,100}$ on the strings of the model.
SourcePattern(s) == s \in {"feedA", "feed-B", "BTCUSD", "ZZZ", "btcusd"}

\* validatePrice: price > 0 && price < 1000000.
ValidPrice(p) == ~NotPositive(p) /\ p.whole < PriceLimit

\* validateFieldType for the schema of RawTickFromMap: "string" accepts any
\* string; "float64" (the field price) accepts a float64 v unless v <= 0 or
\* v >= 1000000, and a string that ParseFloat accepts.
FieldTypeOk(x, expected) ==
    CASE expected = "string" -> x.t = "str"
      [] expected = "float64" ->
            \/ x.t = "float64" /\ ~NotPositive(x.val) /\ x.val.whole < PriceLimit
            \/ x.t = "str" /\ ParseFloat(x).ok

\* validation.ValidateMap(m, schema) reports no error.
RawSchema ==
    [source |-> "string", symbol |-> "string", price |-> "float64",
     timestamp |-> "string"]

ValidateMap(m, schema) ==
    \A f \in DOMAIN schema : m[f].t # "absent" /\ FieldTypeOk(m[f], schema[f])

\* RawTick.Validate: the struct tags required,source / required,ticker /
\* required,price / required.
ValidateRawTick(rt) ==
    /\ rt.Source # "" /\ SourcePattern(rt.Source)
    /\ rt.Symbol # "" /\ TickerPattern(rt.Symbol)
    /\ rt.Price # Price(0, 0) /\ ValidPrice(rt.Price)
    /\ rt.Timestamp # Instant(0, 0)

NoTick == [Source |-> "", Symbol |-> "", Price |-> Price(0, 0),
           Timestamp |-> Instant(0, 0)]

\* The timestamp branch of RawTickFromMap: RFC3339Nano first, then
\* milliseconds since the epoch (sanitized).
RawTimestamp(x) ==
    IF x.t = "float64"
    THEN [ok |-> TRUE, val |-> UnixMilliTime(SanitizeTimestamp(x.val.whole))]
    ELSE IF x.t # "str" THEN [ok |-> FALSE, val |-> Instant(0, 0)]
    ELSE IF ParseTime(x).ok THEN [ok |-> TRUE, val |-> ParseTime(x).val]
    ELSE IF ParseInt(x).ok
         THEN [ok |-> TRUE, val |-> UnixMilliTime(SanitizeTimestamp(ParseInt(x).val))]
    ELSE [ok |-> FALSE, val |-> Instant(0, 0)]

\* The price branch of RawTickFromMap: a float64, or a string that
\* ParseFloat accepts.
RawPrice(x) ==
    IF x.t = "float64" THEN [ok |-> TRUE, val |-> x.val]
    ELSE IF x.t = "str" THEN ParseFloat(x)
    ELSE [ok |-> FALSE, val |-> Price(0, 0)]

\* models.RawTickFromMap on the Values of a stream entry.
RawTickFromMap(m) ==
    IF ~ValidateMap(m, RawSchema) THEN [ok |-> FALSE, tick |-> NoTick]
    ELSE IF ~RawPrice(m.price).ok \/ ~RawTimestamp(m.timestamp).ok
         THEN [ok |-> FALSE, tick |-> NoTick]
    ELSE LET rt == [Source |-> SanitizeString(m.source.s),
                    Symbol |-> SanitizeString(m.symbol.s),
                    Price |-> SanitizePrice(RawPrice(m.price).val),
                    Timestamp |-> RawTimestamp(m.timestamp).val]
         IN [ok |-> ValidateRawTick(rt), tick |-> rt]

\* Mutant of Format8: the digits beyond the eighth are cut off.
Format8Truncated(p) == NumText(p.whole, (p.nano \div 10) * 10)

\* fmt.Sprintf("%.8f", p) of a positive price: the decimal rounded to 8
\* places (the model's prices are never a tie), read back as a numeral.
Format8(p) ==
    LET e8 == (p.nano + 5) \div 10
    IN IF e8 = 100000000 THEN NumText(p.whole + 1, 0)
       ELSE NumText(p.whole, e8 * 10)

\* NormalizedTick.ToMap as the store keeps it: every value a string.
NormalizedToMap(nt) ==
    [ticker |-> Text(nt.Ticker),
     price |-> Format8(nt.Price),
     ts_ms |-> NumText(nt.Timestamp, 0),
     sector |-> Text(nt.Sector)]

----------------------------------------------------------------------------
(* pkg/models: RawTick.ToMap, NormalizedTick.ToJSON, NormalizedTickFromJSON *)

\* Two instants of the last 24 hours.
T1 == NowMs - 2000
T2 == NowMs - 1000

RawEntry(src, sym, price, ts) ==
    [source |-> src, symbol |-> sym, price |-> price, timestamp |-> ts]

\* Time.Format(time.RFC3339Nano): the text of an instant, to the nanosecond.
FormatRFC3339Nano(at) == RfcText(at.ms, at.sub)

\* RawTick.ToMap
RawToMap(rt) ==
    [source |-> Text(rt.Source),
     symbol |-> Text(rt.Symbol),
     price |-> Format8(rt.Price),
     timestamp |-> FormatRFC3339Nano(rt.Timestamp)]

\* Mutant of FormatFloat: the number is written with 8 decimals.
FormatFloatFixed(p) == Format8(p)

\* encoding/json on a float64: the shortest decimal that reads back as the
\* same float64, so every digit of the price is kept.
FormatFloat(p) == NumText(p.whole, p.nano)

\* NormalizedTick.ToJSON: the members of the JSON object (a string member is
\* a Text, a number member a numeral).
ToJSON(nt) ==
    [ticker |-> Text(nt.Ticker),
     price |-> FormatFloat(nt.Price),
     timestamp |-> NumText(nt.Timestamp, 0),
     sector |-> Text(nt.Sector)]

NoNormalizedTick == [Ticker |-> "", Price |-> Price(0, 0), Timestamp |-> 0, Sector |-> ""]

\* json.Unmarshal into a NormalizedTick: a member of the wrong JSON type, or
\* a number with a fraction for the int64 field, is an error.
Unmarshal(doc) ==
    IF /\ doc.ticker.t = "str" /\ doc.ticker.form = "other"
       /\ doc.price.t = "str" /\ doc.price.form = "numeral"
       /\ doc.timestamp.t = "str" /\ ParseInt(doc.timestamp).ok
       /\ doc.sector.t = "str" /\ doc.sector.form = "other"
    THEN [ok |-> TRUE,
          tick |-> [Ticker |-> doc.ticker.s, Price |-> doc.price.val,
                    Timestamp |-> ParseInt(doc.timestamp).val,
                    Sector |-> doc.sector.s]]
    ELSE [ok |-> FALSE, tick |-> NoNormalizedTick]

\* sectorPattern ^[a-zA-Z0-9_-]{1,50}$ on the strings of the model.
SectorPattern(s) == s \in {"crypto", "unknown", "BTCUSD", "ZZZ", "feedA"}

\* validateTimestamp: within the last 24 hours and not in the future.
ValidTimestamp(ms) == ms > NowMs - DayMs /\ ms <= NowMs

\* NormalizedTick.Validate: the struct tags required,ticker / required,price
\* / required,timestamp / required,sector.
ValidateNormalizedTick(nt) ==
    /\ nt.Ticker # "" /\ TickerPattern(nt.Ticker)
    /\ nt.Price # Price(0, 0) /\ ValidPrice(nt.Price)
    /\ nt.Timestamp # 0 /\ ValidTimestamp(nt.Timestamp)
    /\ nt.Sector # "" /\ SectorPattern(nt.Sector)

\* NormalizedTick.Sanitize
SanitizeNormalizedTick(nt) ==
    [Ticker |-> SanitizeString(nt.Ticker),
     Price |-> SanitizePrice(nt.Price),
     Timestamp |-> SanitizeTimestamp(nt.Timestamp),
     Sector |-> SanitizeString(nt.Sector)]

\* models.NormalizedTickFromJSON
NormalizedTickFromJSON(doc) ==
    IF ~Unmarshal(doc).ok THEN [ok |-> FALSE, tick |-> NoNormalizedTick]
    ELSE LET nt == SanitizeNormalizedTick(Unmarshal(doc).tick)
         IN [ok |-> ValidateNormalizedTick(nt), tick |-> nt]

\* Prices of the ticks handed to the functions: ordinary ones, the smallest
\* and the greatest the validators accept, and ones with more than 8
\* decimals.
TickPrices ==
    {Price(123, 450000000), Price(30001, 123456786), Price(0, 10000000),
     Price(0, 4), Price(999999, 999999996), Price(1, 0), Price(0, 0),
     Price(1000000, 0)}

\* The valid RawTicks handed to ToMap.
RawTicks ==
    {rt \in [Source : {"feedA", "feed-B", ""}, Symbol : {"BTCUSD", "ZZZ", "btcusd"},
             Price : TickPrices,
             Timestamp : {Instant(T1, 500000), Instant(T2, 0),
                          Instant(NowMs + 5000, 0), Instant(1, 1)}] :
        ValidateRawTick(rt)}

\* The valid NormalizedTicks handed to ToJSON.
NormalizedTicks ==
    {nt \in [Ticker : {"BTCUSD", "ZZZ", "btcusd"}, Price : TickPrices,
             Timestamp : {NowMs, T1, NowMs - DayMs + 1, NowMs + 1, NowMs - DayMs},
             Sector : {"crypto", "unknown", ""}] :
        ValidateNormalizedTick(nt)}

\* The maps handed to RawTickFromMap: each field missing, well-formed, or
\* malformed in one of the ways the function tells apart; the timestamp in
\* each representation, within the last 24 hours, in the future and older.
RawMaps ==
    {RawEntry(src, sym, price, ts) :
        src \in {Absent, Text("feedA"), OtherValue},
        sym \in {Absent, Text("BTCUSD"), Text("btcusd")},
        price \in {Absent, NumText(123, 450000000), Float(1, 0), Float(0, 0),
                   Text("not-a-number"), OtherValue},
        ts \in {Absent, RfcText(T2, 0), Text("garbage"), NumText(T1, 0),
                NumText(12, 500000000), Float(T1, 0), OtherValue,
                RfcText(NowMs + 5000, 0), RfcText(NowMs - DayMs - 5000, 0),
                NumText(NowMs + 5000, 0), NumText(NowMs - DayMs - 5000, 0),
                Float(NowMs + 5000, 0)}}

NotCalled == [op |-> "none"]

\* No function of this group is called.
FnIdle ==
    /\ fnIn = [kind |-> "none"]
    /\ fnOut = NotCalled

FnInit(inputs) ==
    /\ fnIn \in inputs
    /\ fnOut = NotCalled

\* The arguments of the calls, one set for each function.
RawTickInputs == {[kind |-> "RawTick", tick |-> rt] : rt \in RawTicks}
MapInputs == {[kind |-> "map", map |-> m] : m \in RawMaps}
NormalizedTickInputs ==
    {[kind |-> "NormalizedTick", tick |-> nt] : nt \in NormalizedTicks}

\* RawTickFromMap(rt.ToMap())
RawRoundTrip ==
    /\ fnIn.kind = "RawTick"
    /\ fnOut = NotCalled
    /\ fnOut' = [op |-> "RawTickFromMap(ToMap)", arg |-> RawToMap(fnIn.tick),
                 res |-> RawTickFromMap(RawToMap(fnIn.tick))]
    /\ UNCHANGED fnIn

\* RawTickFromMap(m)
ParseRawMap ==
    /\ fnIn.kind = "map"
    /\ fnOut = NotCalled
    /\ fnOut' = [op |-> "RawTickFromMap", arg |-> fnIn.map,
                 res |-> RawTickFromMap(fnIn.map)]
    /\ UNCHANGED fnIn

\* NormalizedTickFromJSON(nt.ToJSON())
JSONRoundTrip ==
    /\ fnIn.kind = "NormalizedTick"
    /\ fnOut = NotCalled
    /\ fnOut' = [op |-> "NormalizedTickFromJSON(ToJSON)", arg |-> ToJSON(fnIn.tick),
                 res |-> NormalizedTickFromJSON(ToJSON(fnIn.tick))]
    /\ UNCHANGED fnIn

----------------------------------------------------------------------------
(* graph.Resolver: CreateAnomaly, UpdateAnomaly, DeleteAnomaly; archival    *)

\* Anomalies created in one run.
MaxCreates == 2

\* An element of the list: the anomaly's id and whether it carries the
\* fields of an update.
Anomaly(id, updated) == [id |-> id, updated |-> updated]

\* The list when the run begins: two anomalies, the newer at the head.
StoredAnomalies == <<Anomaly(2, FALSE), Anomaly(1, FALSE)>>

\* The ids a mutation can be asked for: those stored and one that is not.
KnownIds == {1, 2, 9}

NoCall == [pc |-> "idle"]

\* No resolver is called and the list is empty.
ApiIdle ==
    /\ alist = <<>>
    /\ nextId = 0
    /\ upd = NoCall
    /\ del = NoCall

\* The API in front of a list that holds anomalies.
ApiInit ==
    /\ alist = StoredAnomalies
    /\ nextId = Len(StoredAnomalies) + 1
    /\ upd = NoCall
    /\ del = NoCall

\* The for loop of UpdateAnomaly / DeleteAnomaly over the LRANGE result: the
\* 0-based index of the first element with the id, -1 when there is none.
IndexOf(list, id) ==
    IF \E k \in 1..Len(list) : list[k].id = id
    THEN (CHOOSE k \in 1..Len(list) :
            list[k].id = id /\ \A j \in 1..(k - 1) : list[j].id # id) - 1
    ELSE -1

\* LPUSH key v
LPush(list, v) == <<v>> \o list

\* LSET key index v with index >= 0: an index beyond the list is an error
\* and changes nothing.
LSet(list, index, v) ==
    IF index < Len(list) THEN [list EXCEPT ![index + 1] = v] ELSE list

\* LREM key 1 v: the first element equal to v is removed.
LRem(list, v) ==
    IF \E k \in 1..Len(list) : list[k] = v
    THEN LET k == CHOOSE i \in 1..Len(list) :
                     list[i] = v /\ \A j \in 1..(i - 1) : list[j] # v
         IN [i \in 1..(Len(list) - 1) |-> IF i < k THEN list[i] ELSE list[i + 1]]
    ELSE list

\* CreateAnomaly: LPUSH of the new anomaly.
CreateAnomaly ==
    /\ nextId <= Len(StoredAnomalies) + MaxCreates
    /\ alist' = LPush(alist, Anomaly(nextId, FALSE))
    /\ nextId' = nextId + 1
    /\ UNCHANGED <<upd, del>>

\* UpdateAnomaly, first half: LRANGE 0 -1 and the search for the id;
\* "anomaly not found" returns at once.
UpdateRead(id) ==
    /\ upd.pc = "idle"
    /\ upd' = IF IndexOf(alist, id) = -1 THEN NoCall
              ELSE [pc |-> "lset", id |-> id, index |-> IndexOf(alist, id)]
    /\ UNCHANGED <<alist, nextId, del>>

\* UpdateAnomaly, second half: LSET anomalies anomalyIndex updatedJSON.
UpdateWrite ==
    /\ upd.pc = "lset"
    /\ alist' = LSet(alist, upd.index, Anomaly(upd.id, TRUE))
    /\ upd' = NoCall
    /\ UNCHANGED <<nextId, del>>

\* DeleteAnomaly, first half: LRANGE 0 -1 and the search for the id.
DeleteRead(id) ==
    /\ del.pc = "idle"
    /\ del' = IF IndexOf(alist, id) = -1 THEN NoCall
              ELSE [pc |-> "lrem", val |-> alist[IndexOf(alist, id) + 1]]
    /\ UNCHANGED <<alist, nextId, upd>>

\* DeleteAnomaly, second half: LREM anomalies 1 <the element read>.
DeleteRem ==
    /\ del.pc = "lrem"
    /\ alist' = LRem(alist, del.val)
    /\ del' = NoCall
    /\ UNCHANGED <<nextId, upd>>

\* The anomalies whose timestamp is before the cutoff of the archival.
OldIds == {1}

\* archiveOldAnomalies: LREM anomalies 1 <an element old enough>.
ArchiveSweep(k) ==
    /\ k \in 1..Len(alist)
    /\ alist[k].id \in OldIds
    /\ alist' = LRem(alist, alist[k])
    /\ UNCHANGED <<nextId, upd, del>>

----------------------------------------------------------------------------
(* database.DB: Transaction                                                *)

\* Calls of Transaction in one run.
MaxCalls == 3

\* The database before the first call: nothing committed, nothing rolled
\* back.
DBInit ==
    /\ fnIn = [kind |-> "db", commits |-> 0, rollbacks |-> 0, calls |-> 0]
    /\ fnOut = NotCalled

\* A call of Transaction: where it stands, the state of tx, the variable
\* err, the function's result and how fn ended.
TxCall(at, tx, err, result, fnRes) ==
    [op |-> "Transaction", pc |-> at, tx |-> tx, err |-> err, result |-> result,
     fnRes |-> fnRes]

\* "return err" of a function whose result has no name: the result is the
\* value err has when the return statement runs; what the deferred function
\* assigns to err afterwards does not reach the caller.
ResultOf(atReturn, atExit) == atReturn

\* Transaction: db.BeginTx; a failure returns "failed to begin transaction".
TxBegin(ok) ==
    /\ fnIn.kind = "db"
    /\ IF fnOut = NotCalled THEN TRUE ELSE fnOut.pc = "returned"
    /\ fnIn.calls < MaxCalls
    /\ fnIn' = [fnIn EXCEPT !.calls = @ + 1]
    /\ fnOut' = IF ok THEN TxCall("fn", "open", "nil", "unset", "unset")
                ELSE TxCall("returned", "none", "error", "error", "unset")

\* Transaction: err = fn(tx); fn returns nil or an error, or panics (the
\* assignment then never happens and the deferred function runs next).
TxFn(res) ==
    /\ fnIn.kind = "db"
    /\ fnOut # NotCalled
    /\ fnOut.pc = "fn"
    /\ fnOut' = TxCall(IF res = "panic" THEN "defer" ELSE "return", "open",
                       IF res = "error" THEN "error" ELSE "nil", "unset", res)
    /\ UNCHANGED fnIn

\* Transaction: "return err" stores the result, then the deferred function
\* runs.
TxReturn ==
    /\ fnIn.kind = "db"
    /\ fnOut # NotCalled
    /\ fnOut.pc = "return"
    /\ fnOut' = [fnOut EXCEPT !.pc = "defer", !.result = fnOut.err]
    /\ UNCHANGED fnIn

\* Transaction: the deferred function. A panic is rolled back and raised
\* again; an error is rolled back; otherwise err = tx.Commit().
TxDefer(commitOk) ==
    /\ fnIn.kind = "db"
    /\ fnOut # NotCalled
    /\ fnOut.pc = "defer"
    /\ LET committing == fnOut.fnRes = "nil"
           atExit == IF committing /\ ~commitOk THEN "error" ELSE fnOut.err
       IN /\ fnOut' = TxCall("returned",
                             IF ~committing THEN "rolled_back"
                             ELSE IF commitOk THEN "committed" ELSE "commit_failed",
                             atExit,
                             IF fnOut.fnRes = "panic" THEN "panic"
                             ELSE ResultOf(fnOut.result, atExit),
                             fnOut.fnRes)
          /\ fnIn' = [fnIn EXCEPT
                         !.commits = IF committing /\ commitOk THEN @ + 1 ELSE @,
                         !.rollbacks = IF committing THEN @ ELSE @ + 1]

----------------------------------------------------------------------------
(* pkg/config: Load, loadFeeds, splitAndTrim                               *)

\* Entries of FEED_URLS between its commas.
MaxParts == 3

\* Variables FEED_<i>_URL that are set.
MaxNumbered == 2

\* The pieces strings.Split(FEED_URLS, ",") can yield.
UrlParts == {"ws://feed1", " https://feed2 ", "", " "}

\* strings.TrimSpace on the strings of the model.
TrimSpace(p) ==
    CASE p = " https://feed2 " -> "https://feed2"
      [] p = " " -> ""
      [] OTHER -> p

\* Mutant of splitAndTrim: the pieces as they are.
splitOnly(parts) == parts

RECURSIVE splitAndTrim(_)
\* splitAndTrim(s, ","), on the pieces of s: each piece trimmed, the empty
\* ones dropped.
splitAndTrim(parts) ==
    IF parts = <<>> THEN <<>>
    ELSE IF TrimSpace(Head(parts)) # ""
         THEN <<TrimSpace(Head(parts))>> \o splitAndTrim(Tail(parts))
    ELSE splitAndTrim(Tail(parts))

\* 30 * time.Second, in seconds.
DefaultPollInterval == 30

HttpFeed(url) == [URL |-> url, Type |-> "http", PollInterval |-> DefaultPollInterval]

RECURSIVE NumberedFeeds(_)
\* loadFeeds, new format: FEED_0_URL, FEED_1_URL, ... up to the first one
\* that is empty (FEED_<i>_TYPE and the others are left unset).
NumberedFeeds(urls) ==
    IF urls = <<>> \/ Head(urls) = "" THEN <<>>
    ELSE <<HttpFeed(Head(urls))>> \o NumberedFeeds(Tail(urls))

\* Config.loadFeeds: FEED_URLS if it is not empty, else the numbered
\* variables. FEED_URLS is kept as its pieces; <<>> is the unset variable.
loadFeeds(env) ==
    IF env.FEED_URLS # <<>>
    THEN [i \in 1..Len(splitAndTrim(env.FEED_URLS)) |->
              HttpFeed(splitAndTrim(env.FEED_URLS)[i])]
    ELSE NumberedFeeds(env.FEED_N_URL)

\* strconv.Atoi on the strings of the model.
Atoi(s) == IF s = "9090" THEN [ok |-> TRUE, val |-> 9090] ELSE [ok |-> FALSE, val |-> 0]

\* The default of the flag -port.
DefaultHTTPPort == 8080

NoConfig == [RedisURL |-> "", HTTPPort |-> 0, Feeds |-> <<>>]

\* config.Load under the environment env and the arguments args: "none",
\* "-redis" (-redis=redis://flag) or "-bogus" (a flag the FlagSet does not
\* define).
Load(env, args) ==
    LET redisURL == IF args = "-redis" THEN "redis://flag" ELSE env.REDIS_URL
        port == IF env.PORT # "" THEN Atoi(env.PORT).val ELSE DefaultHTTPPort
    IN IF args = "-bogus" THEN [ok |-> FALSE, cfg |-> NoConfig]
       ELSE IF env.PORT # "" /\ ~Atoi(env.PORT).ok THEN [ok |-> FALSE, cfg |-> NoConfig]
       ELSE IF redisURL = "" THEN [ok |-> FALSE, cfg |-> NoConfig]
       ELSE IF Len(loadFeeds(env)) = 0 THEN [ok |-> FALSE, cfg |-> NoConfig]
       ELSE [ok |-> TRUE,
             cfg |-> [RedisURL |-> redisURL, HTTPPort |-> port,
                      Feeds |-> loadFeeds(env)]]

\* The sequences over S of length at most n.
SeqsUpTo(S, n) == UNION {[1..k -> S] : k \in 0..n}

\* The environments and arguments Load is called under.
ConfigInputs ==
    {[kind |-> "env", env |-> e, args |-> a] :
        e \in [REDIS_URL : {"", "redis://localhost:6379/0"},
               PORT : {"", "9090", "abc"},
               FEED_URLS : SeqsUpTo(UrlParts, MaxParts),
               FEED_N_URL : SeqsUpTo({"", "http://feed0"}, MaxNumbered)],
        a \in {"none", "-redis", "-bogus"}}

\* cfg, err := config.Load()
CallLoad ==
    /\ fnIn.kind = "env"
    /\ fnOut = NotCalled
    /\ fnOut' = [op |-> "Load", res |-> Load(fnIn.env, fnIn.args)]
    /\ UNCHANGED fnIn

----------------------------------------------------------------------------
(* cmd/normalize: startNormalization, normalizeOne                         *)

\* var symbolMap / var sectorMap of worker.go.
symbolMap == [s \in {"BTCUSD"} |-> "BTCUSD"]
sectorMap == [s \in {"BTCUSD"} |-> "crypto"]

\* const maxWorkers = 50
maxWorkers == 50

\* XReadArgs.Count of both consumers.
BatchCount == 100

\* Entries of raw:events beyond the pool's width, in a run under load.
MaxBacklog == 2

\* Tasks that return in a run under load: those of the first MaxFinish
\* entries (the others stay inside AddToStream's retries).
MaxFinish == 2

\* Entries of raw:events in a run without load.
MaxRaw == 2

\* The entries raw:events is filled from. The ingest writers append the
\* feed's JSON objects as they come, so an entry need not be a valid RawTick.
RawInputs ==
    << RawEntry(Text("feedA"), Text("BTCUSD"), NumText(30000, 0), RfcText(T2, 0)),
       RawEntry(Text("feedA"), Text("BTCUSD"), NumText(30001, 123456786), RfcText(T1, 500000)),
       RawEntry(Text("feedA"), Text("ZZZ"), NumText(12, 0), RfcText(T2, 0)),
       RawEntry(Absent, Text("BTCUSD"), NumText(30000, 0), RfcText(T2, 0)),
       RawEntry(Text("feedA"), Text("BTCUSD"), Text("not-a-number"), RfcText(T2, 0)),
       RawEntry(Text("feedA"), Text("BTCUSD"), NumText(0, 4), RfcText(T2, 0)),
       RawEntry(Text("feedA"), Text("BTCUSD"), NumText(-1, 0), RfcText(T2, 0)),
       RawEntry(Text("feedA"), Text("BTCUSD"), NumText(2000000, 0), RfcText(T2, 0)),
       RawEntry(Text("feedA"), Text("BTCUSD"), NumText(30000, 0), Text("garbage")),
       RawEntry(Text("feedA"), Text("BTCUSD"), NumText(30000, 0), NumText(5, 0)),
       RawEntry(Text("feedA"), Text(" BTCUSD "), NumText(30002, 0), RfcText(T1, 0)),
       RawEntry(Text("feedA"), Text("btcusd"), NumText(30000, 0), RfcText(T2, 0)) >>

\* A stream of n entries that runs through RawInputs again and again, from
\* the entry after the k-th.
ShiftedStream(n, k) == [i \in 1..n |-> RawInputs[((i + k - 1) % Len(RawInputs)) + 1]]

\* A stream of n entries that runs through RawInputs again and again.
LoadStream(n) == [i \in 1..n |-> RawInputs[((i - 1) % Len(RawInputs)) + 1]]

\* The streams of the runs without load: up to MaxRaw entries of RawInputs.
ShortStreams ==
    UNION {[1..n -> {RawInputs[k] : k \in 1..Len(RawInputs)}] : n \in 0..MaxRaw}

\* The normalizer before its first read, given the content of raw:events.
NormInit(stream) ==
    /\ raw = stream
    /\ lastID = 0
    /\ npc = "xread"
    /\ batch = <<>>
    /\ bi = 0
    /\ inflight = {}
    /\ active = {}
    /\ done = [i \in 1..Len(stream) |-> "none"]
    /\ seen = <<>>
    /\ doneAtAdmit = [i \in 1..Len(stream) |-> {}]
    /\ normalized = <<>>
    /\ normalizeErrors = 0
    /\ normalizeCounter = 0
    /\ ctxDone = FALSE

\* Entries of normalized:events in a run of the publisher alone.
MaxNormalized == 2

NormalizedEntry(ticker, price, ts, sector) ==
    [src |-> 0, ticker |-> ticker, price |-> price, ts_ms |-> ts, sector |-> sector]

\* Entries normalized:events can hold when the normalizer is not its only
\* writer: a well-formed one, and ones with a field missing or unparseable.
NormalizedInputs ==
    {NormalizedEntry(Text("BTCUSD"), NumText(30000, 0), NumText(T2, 0), Text("crypto")),
     NormalizedEntry(Absent, NumText(30000, 0), NumText(T2, 0), Text("crypto")),
     NormalizedEntry(Text("BTCUSD"), Text("not-a-number"), NumText(T2, 0), Text("crypto")),
     NormalizedEntry(Text("BTCUSD"), NumText(30000, 0), Absent, Text("crypto")),
     NormalizedEntry(Text("BTCUSD"), NumText(30000, 0), Text("garbage"), Text("crypto"))}

NormalizedStreams == UNION {[1..n -> NormalizedInputs] : n \in 0..MaxNormalized}

\* The normalizer not running, and normalized:events with the given entries.
NormLoaded(entries) ==
    /\ raw = <<>>
    /\ lastID = 0
    /\ npc = "xread"
    /\ batch = <<>>
    /\ bi = 0
    /\ inflight = {}
    /\ active = {}
    /\ done = <<>>
    /\ seen = <<>>
    /\ doneAtAdmit = <<>>
    /\ normalized = entries
    /\ normalizeErrors = 0
    /\ normalizeCounter = 0
    /\ ctxDone = FALSE

\* Mutant of ReadFrom: every read starts at the beginning of the stream.
ReadFromStart(cursor) == 0

\* The position XREAD is given: Streams: []string{name, lastID}.
ReadFrom(cursor) == cursor

\* Mutant of XRead: the newest entry comes first.
XReadNewestFirst(len, cursor) ==
    LET from == ReadFrom(cursor) + 1
        to == IF len < from + BatchCount - 1 THEN len ELSE from + BatchCount - 1
    IN [k \in 1..(to - from + 1) |-> to - k + 1]

\* The identifiers XREAD returns: the entries after `cursor`, at most Count.
XRead(len, cursor) ==
    LET from == ReadFrom(cursor) + 1
        to == IF len < from + BatchCount - 1 THEN len ELSE from + BatchCount - 1
    IN [k \in 1..(to - from + 1) |-> from + k - 1]

\* startNormalization: one XREAD of raw:events; an error or an empty answer
\* goes round the loop again.
NRead(ok) ==
    /\ npc = "xread"
    /\ ctxDone => ~ok
    /\ IF ok /\ XRead(Len(raw), lastID) # <<>>
       THEN /\ batch' = XRead(Len(raw), lastID)
            /\ bi' = 1
            /\ npc' = "advance"
       ELSE UNCHANGED <<batch, bi, npc>>
    /\ UNCHANGED <<raw, lastID, inflight, active, done, seen, doneAtAdmit,
                   normalized, normalizeErrors, normalizeCounter, ctxDone>>

\* startNormalization: lastID = msg.ID
NAdvance ==
    /\ npc = "advance"
    /\ lastID' = batch[bi]
    /\ npc' = "select"
    /\ UNCHANGED <<raw, batch, bi, inflight, active, done, seen, doneAtAdmit,
                   normalized, normalizeErrors, normalizeCounter, ctxDone>>

\* Mutant of SlotFree: the pool admits one task too many.
SlotFreeOffByOne(running) == Cardinality(running) <= maxWorkers

\* Whether "sem <- struct{}{}" can proceed at once.
SlotFree(running) == Cardinality(running) < maxWorkers

\* Tasks that have returned.
Finished == {i \in DOMAIN done : done[i] \notin {"none", "dropped"}}

\* startNormalization: select { case sem <- struct{}{}: go ...; default:
\* NormalizeErrors.Inc() } for the message at hand, then the next message.
NSelect ==
    /\ npc = "select"
    /\ LET m == batch[bi] IN
         /\ seen' = Append(seen, m)
         /\ IF SlotFree(inflight)
            THEN /\ inflight' = inflight \cup {m}
                 /\ active' = active \cup {m}
                 /\ doneAtAdmit' = [doneAtAdmit EXCEPT ![m] = Finished]
                 /\ UNCHANGED <<done, normalizeErrors>>
            ELSE /\ done' = [done EXCEPT ![m] = "dropped"]
                 /\ normalizeErrors' = normalizeErrors + 1
                 /\ UNCHANGED <<inflight, active, doneAtAdmit>>
    /\ bi' = bi + 1
    /\ npc' = IF bi < Len(batch) THEN "advance" ELSE "xread"
    /\ UNCHANGED <<raw, lastID, batch, normalized, normalizeCounter, ctxDone>>

\* Mutant of KnownSymbol: every symbol is taken as known.
KnownSymbolAlways(sym) == TRUE

\* Mutant of KnownSymbol: no symbol is found in the table.
KnownSymbolNever(sym) == FALSE

\* ticker, ok := symbolMap[raw.Symbol]
KnownSymbol(sym) == sym \in DOMAIN symbolMap

\* sector := sectorMap[ticker], "unknown" when there is none.
SectorOf(ticker) ==
    IF ticker \in DOMAIN sectorMap /\ sectorMap[ticker] # "" THEN sectorMap[ticker]
    ELSE "unknown"

\* The ticker of a symbol (the zero value when the table has none).
TickerOf(sym) == IF sym \in DOMAIN symbolMap THEN symbolMap[sym] ELSE ""

\* normalizeOne, step 4: the NormalizedTick built from a RawTick.
Normalize(rt) ==
    [Ticker |-> TickerOf(rt.Symbol),
     Price |-> rt.Price,
     Timestamp |-> UnixMilli(rt.Timestamp),
     Sector |-> SectorOf(TickerOf(rt.Symbol))]

\* How normalizeOne ends for the Values m when AddToStream answers `ok`.
NormalizeOutcome(m, ok) ==
    IF ~RawTickFromMap(m).ok THEN "parse_err"
    ELSE IF ~KnownSymbol(RawTickFromMap(m).tick.Symbol) THEN "unknown_symbol"
    ELSE IF ~ok THEN "append_err"
    ELSE "appended"

\* The entries whose task returns in this run.
FinishBudget == IF Len(raw) > maxWorkers THEN MaxFinish ELSE Len(raw)

\* Mutant of ErrorCount: the unknown-symbol return counts nothing.
ErrorCountButSymbol(out) == IF out \in {"appended", "unknown_symbol"} THEN 0 ELSE 1

\* normalizeOne: what a return adds to metrics.NormalizeErrors: one on each
\* early return, nothing after a successful append.
ErrorCount(out) == IF out = "appended" THEN 0 ELSE 1

\* Mutant of Released: only a successful task gives its slot back.
ReleasedOnSuccess(held, i, out) == IF out = "appended" THEN held \ {i} ELSE held

\* "defer func() { <-sem }()" of the task's goroutine: the slot is given
\* back however normalizeOne returns.
Released(held, i, out) == held \ {i}

\* An admitted task: normalizeOne(ctx, rdb, m) and the release of its slot.
\* `ok` is the answer of AddToStream("normalized:events", ...).
TaskRun(i, ok) ==
    /\ i \in active
    /\ i <= FinishBudget
    /\ ctxDone => ~ok
    /\ LET out == NormalizeOutcome(raw[i], ok) IN
         /\ done' = [done EXCEPT ![i] = out]
         /\ IF out = "appended"
            THEN /\ normalized' = Append(normalized,
                        [src |-> i] @@ NormalizedToMap(Normalize(RawTickFromMap(raw[i]).tick)))
                 /\ normalizeCounter' = normalizeCounter + 1
                 /\ UNCHANGED normalizeErrors
            ELSE /\ normalizeErrors' = normalizeErrors + ErrorCount(out)
                 /\ UNCHANGED <<normalized, normalizeCounter>>
         /\ inflight' = Released(inflight, i, out)
    /\ active' = active \ {i}
    /\ UNCHANGED <<raw, lastID, npc, batch, bi, seen, doneAtAdmit, ctxDone>>

\* main: a signal arrives and cancel() is called. From then on every store
\* command given the context fails at once.
Cancel ==
    /\ ~ctxDone
    /\ ctxDone' = TRUE
    /\ UNCHANGED <<raw, lastID, npc, batch, bi, inflight, active, done, seen,
                   doneAtAdmit, normalized, normalizeErrors, normalizeCounter>>

\* The JSON object of the feed's e-th message, as the reader decodes it: the
\* feed is not under the program's control and runs through RawInputs from
\* its end.
FeedMessage(e) == RawInputs[Len(RawInputs) - ((e - 1) % Len(RawInputs))]

----------------------------------------------------------------------------
(* cmd/cachepub: runCachePub, publishTick                                  *)

\* Restarts of the publisher process in a run.
MaxRestarts == 1

\* The publisher before its first read.
PubInit ==
    /\ plast = 0
    /\ ppc = "xread"
    /\ pctxDone = FALSE
    /\ pbatch = <<>>
    /\ pbi = 0
    /\ latest = <<>>
    /\ pubsub = <<>>
    /\ applied = <<>>
    /\ restarts = 0
    /\ cachePubErrors = 0
    /\ cachePubCounter = 0

\* runCachePub: one XREAD of normalized:events.
PRead(ok) ==
    /\ ppc = "xread"
    /\ ~pctxDone
    /\ IF ok /\ XRead(Len(normalized), plast) # <<>>
       THEN /\ pbatch' = XRead(Len(normalized), plast)
            /\ pbi' = 1
            /\ ppc' = "publish"
       ELSE UNCHANGED <<pbatch, pbi, ppc>>
    /\ UNCHANGED <<plast, latest, pubsub, applied, restarts, cachePubErrors,
                   cachePubCounter, pctxDone>>

\* runCachePub: the NormalizedTick read from an entry's Values; a field that
\* is missing or does not parse keeps its zero value.
TickOfValues(v) ==
    [Ticker |-> IF v.ticker.t = "str" THEN v.ticker.s ELSE "",
     Price |-> IF v.price.t = "str" /\ ParseFloat(v.price).ok
               THEN ParseFloat(v.price).val ELSE Price(0, 0),
     Timestamp |-> IF v.ts_ms.t = "str" /\ ParseInt(v.ts_ms).ok
                   THEN ParseInt(v.ts_ms).val ELSE 0,
     Sector |-> IF v.sector.t = "str" THEN v.sector.s ELSE ""]

\* publishTick: HSET quotes:latest:<ticker> price ts_ms.
StoreLatest(h, tick) ==
    (tick.Ticker :> [price |-> tick.Price, ts_ms |-> tick.Timestamp]) @@ h

\* How pipe.Exec can end. The pipeline is not a transaction: "ok" both
\* commands ran; "none" neither ran; "hset" the HSET ran and the PUBLISH did
\* not; "late" both ran but the 100 ms deadline passed before the replies.
PipeOutcomes == {"ok", "none", "hset", "late"}

\* Mutant of ExecFailed: the error of pipe.Exec is ignored.
ExecFailedNever(out) == FALSE

\* publishTick: "if _, err := pipe.Exec(execCtx); err != nil".
ExecFailed(out) == out # "ok"

\* runCachePub: lastID = msg.ID, the tick is parsed and publishTick runs its
\* pipeline (HSET, then PUBLISH of the tick's JSON) once; `out` is how
\* pipe.Exec ends.
PPublish(out) ==
    /\ ppc = "publish"
    /\ LET k == pbatch[pbi]
           tick == TickOfValues(normalized[k])
       IN /\ plast' = k
          /\ applied' = Append(applied, k)
          /\ latest' = IF out = "none" THEN latest ELSE StoreLatest(latest, tick)
          /\ pubsub' = IF out \in {"ok", "late"}
                       THEN Append(pubsub, [idx |-> k] @@ tick) ELSE pubsub
          /\ IF ExecFailed(out)
             THEN cachePubErrors' = cachePubErrors + 1 /\ UNCHANGED cachePubCounter
             ELSE cachePubCounter' = cachePubCounter + 1 /\ UNCHANGED cachePubErrors
    /\ pbi' = pbi + 1
    /\ ppc' = IF pbi < Len(pbatch) THEN "publish" ELSE "xread"
    /\ UNCHANGED <<pbatch, restarts, pctxDone>>

\* The publisher process is restarted: its cursor is kept in memory only, so
\* it reads normalized:events from "0-0" again.
PRestart ==
    /\ restarts < MaxRestarts
    /\ restarts' = restarts + 1
    /\ plast' = 0
    /\ ppc' = "xread"
    /\ pbatch' = <<>>
    /\ pbi' = 0
    /\ applied' = <<>>
    /\ UNCHANGED <<latest, pubsub, cachePubErrors, cachePubCounter, pctxDone>>

\* main: a signal arrives and cancel() is called.
PCancel ==
    /\ ~pctxDone
    /\ pctxDone' = TRUE
    /\ UNCHANGED <<plast, ppc, pbatch, pbi, latest, pubsub, applied, restarts,
                   cachePubErrors, cachePubCounter>>

\* runCachePub: "case <-ctx.Done(): return" at the top of the loop.
PReturn ==
    /\ ppc = "xread"
    /\ pctxDone
    /\ ppc' = "returned"
    /\ UNCHANGED <<plast, pctxDone, pbatch, pbi, latest, pubsub, applied, restarts,
                   cachePubErrors, cachePubCounter>>

----------------------------------------------------------------------------
(* cmd/anomaly: rollingWindow, runAnomalyDetector, emitAnomaly             *)

\* config.Load: the defaults of AnomalyWindowSize and AnomalyThreshold.
DefaultWindowSize == 20
DefaultThreshold == 3

DefaultConfig ==
    [AnomalyWindowSize |-> DefaultWindowSize, AnomalyThreshold |-> DefaultThreshold]

\* Window sizes of the runs with a small window (ANOMALY_WINDOW_SIZE).
MaxWindow == 3

\* The threshold of the runs with a small window (ANOMALY_THRESHOLD).
SmallThreshold == 1

SmallConfigs ==
    {[AnomalyWindowSize |-> size, AnomalyThreshold |-> SmallThreshold] :
        size \in 1..MaxWindow}

\* Messages the detector receives in a run with a small window.
MaxTicks == 4

\* Messages the detector receives in a run with the default configuration.
MaxRefTicks == 21

\* Ticks of the high price in a run with the default configuration.
MaxSpikes == 1

\* The prices of the ticks (whole units; the detector's arithmetic on them
\* is exact).
SmallPrices == {1, 2, 4}
\* The prices of the reference run: a steady price and a tenfold spike.
ReferencePrices == {100, 1000}
BasePrice == CHOOSE p \in ReferencePrices : \A q \in ReferencePrices : p <= q
SpikePrice == CHOOSE p \in ReferencePrices : \A q \in ReferencePrices : p >= q

\* A configuration with ANOMALY_WINDOW_SIZE=5 and the default threshold.
FiveConfig == [AnomalyWindowSize |-> 5, AnomalyThreshold |-> DefaultThreshold]

\* Messages the detector receives in a run with a window of five.
MaxFiveTicks == 8

\* The prices of a run with a window of five: a steady price, then outliers
\* of growing size.
FivePrices == {100, 200, 300, 1000}

\* The tickers and prices of the ticks under a configuration.
TickersOf(c) ==
    IF c \in {DefaultConfig, FiveConfig} THEN {"BTCUSD"} ELSE {"BTCUSD", "ETHUSD"}

PricesOf(c) ==
    IF c = DefaultConfig THEN ReferencePrices
    ELSE IF c = FiveConfig THEN FivePrices
    ELSE SmallPrices

\* The detector of a process that runs none.
DetIdle ==
    /\ cfg = DefaultConfig
    /\ dpc = "none"
    /\ dctxDone = FALSE
    /\ subClosed = FALSE
    /\ windows = <<>>
    /\ hist = <<>>
    /\ heard = 0
    /\ emitted = <<>>
    /\ anomStream = <<>>
    /\ anomIndex = {}
    /\ anomalyErrors = 0
    /\ anomalyCounter = 0

\* runAnomalyDetector subscribed to quotes:pubsub, under the configuration c.
DetInit(c) ==
    /\ cfg = c
    /\ dpc = "recv"
    /\ dctxDone = FALSE
    /\ subClosed = FALSE
    /\ windows = <<>>
    /\ hist = <<>>
    /\ heard = 0
    /\ emitted = <<>>
    /\ anomStream = <<>>
    /\ anomIndex = {}
    /\ anomalyErrors = 0
    /\ anomalyCounter = 0

\* newWindow(size)
newWindow(size) ==
    [buf |-> [i \in 1..size |-> 0], sum |-> 0, sqsum |-> 0, idx |-> 0,
     full |-> FALSE]

\* Mutant of Evict: nothing leaves the sums.
EvictNothing(w) == w

\* rollingWindow.add: "if w.full { old := w.buf[w.idx]; w.sum -= old;
\* w.sqsum -= old * old }".
Evict(w) ==
    IF w.full
    THEN [w EXCEPT !.sum = @ - w.buf[w.idx + 1],
                   !.sqsum = @ - w.buf[w.idx + 1] * w.buf[w.idx + 1]]
    ELSE w

\* rollingWindow.add(x)
add(w, x) ==
    LET e == Evict(w)
        next == (e.idx + 1) % Len(e.buf)
    IN [buf |-> [e.buf EXCEPT ![e.idx + 1] = x],
        sum |-> e.sum + x,
        sqsum |-> e.sqsum + x * x,
        idx |-> next,
        full |-> e.full \/ next = 0]

\* Mutant of SampleCount: the count is always taken from idx.
SampleCountFromIdx(w) == w.idx

\* rollingWindow.stats: n is len(w.buf), or w.idx while the window is not
\* full.
SampleCount(w) == IF w.full THEN Len(w.buf) ELSE w.idx

\* rollingWindow.stats. With n samples, mean = sum / n and
\* std = Sqrt(varNum) / n, where varNum = n * sqsum - sum * sum is n * n times
\* the variance (set to 0 when negative); n = 0 gives mean = std = 0.
stats(w) ==
    LET n == SampleCount(w)
        v == n * w.sqsum - w.sum * w.sum
    IN IF n = 0 THEN [n |-> 0, sum |-> 0, varNum |-> 0]
       ELSE [n |-> n, sum |-> w.sum, varNum |-> IF v < 0 THEN 0 ELSE v]

\* runAnomalyDetector: "if std == 0 { continue }".
StdIsZero(st) == st.varNum = 0

\* math.Abs(n * x - sum)
Abs(d) == IF d < 0 THEN -d ELSE d

\* runAnomalyDetector: z := math.Abs((x - mean) / std), kept as the pair
\* (num, rad) with z = num / Sqrt(rad).
ZScoreOf(x, st) == [num |-> Abs(st.n * x - st.sum), rad |-> st.varNum]

\* Mutant of ZAtLeast: a strict comparison.
ZAbove(z, threshold) == z.num * z.num > threshold * threshold * z.rad

\* runAnomalyDetector: z >= cfg.AnomalyThreshold (the threshold is not
\* negative, so the squares compare alike).
ZAtLeast(z, threshold) == z.num * z.num >= threshold * threshold * z.rad

\* The ticks of the high price received so far.
Spikes ==
    Cardinality({p \in {<<t, k>> : t \in DOMAIN hist, k \in 1..MaxRefTicks} :
                    p[2] <= Len(hist[p[1]]) /\ hist[p[1]][p[2]] = SpikePrice})

\* Whether one more message, of price x if it is a tick, is within the run.
WithinRun(x) ==
    IF cfg = DefaultConfig
    THEN heard < MaxRefTicks /\ (x = SpikePrice => Spikes < MaxSpikes)
    ELSE IF cfg = FiveConfig THEN heard < MaxFiveTicks
    ELSE heard < MaxTicks

\* Mutant of LoopRuns: messages are handled whether the loop runs or not.
LoopRunsAnyway(p) == TRUE

\* runAnomalyDetector: the for loop has been entered and has not returned.
LoopRuns(p) == p = "recv"

\* runAnomalyDetector: a message whose payload is not the JSON of a tick.
DetectBad ==
    /\ LoopRuns(dpc)
    /\ ~subClosed
    /\ WithinRun(0)
    /\ heard' = heard + 1
    /\ anomalyErrors' = anomalyErrors + 1
    /\ UNCHANGED <<cfg, dpc, dctxDone, subClosed, windows, hist, emitted,
                   anomStream, anomIndex, anomalyCounter>>

\* emitAnomaly: the map written to anomalies:stream and, as JSON, to the
\* sorted set.
AnomalyValues(a) ==
    [ticker |-> a.Ticker, price |-> a.Price, z |-> a.ZScore, ts_ms |-> a.Timestamp]

\* Mutant of WindowOf: a new window for every tick.
WindowAlwaysNew(ws, tk, size) == newWindow(size)

\* runAnomalyDetector, "Ensure window exists": the ticker's window, made
\* with the configured size when the ticker has none yet.
WindowOf(ws, tk, size) == IF tk \in DOMAIN ws THEN ws[tk] ELSE newWindow(size)

\* runAnomalyDetector on the tick (tk, x) with timestamp heard + 1: the
\* window of the ticker is made if need be and updated, and if the z-score
\* reaches the threshold emitAnomaly runs: AddToStream on anomalies:stream
\* (success sOk), then ZADD on anomalies:<ticker> (success zOk).
DetectTick(tk, x, sOk, zOk) ==
    /\ LoopRuns(dpc)
    /\ ~subClosed
    /\ WithinRun(x)
    /\ LET w0 == WindowOf(windows, tk, cfg.AnomalyWindowSize)
           w == add(w0, x)
           st == stats(w)
           z == ZScoreOf(x, st)
           a == [Ticker |-> tk, Price |-> x, ZScore |-> z, Timestamp |-> heard + 1]
           h0 == IF tk \in DOMAIN hist THEN hist[tk] ELSE <<>>
       IN /\ windows' = (tk :> w) @@ windows
          /\ hist' = (tk :> Append(h0, x)) @@ hist
          /\ heard' = heard + 1
          /\ IF ~StdIsZero(st) /\ ZAtLeast(z, cfg.AnomalyThreshold)
             THEN /\ emitted' = Append(emitted,
                        [event |-> a, k |-> Len(h0) + 1, st |-> st,
                         streamOk |-> sOk, indexOk |-> zOk])
                  /\ anomStream' = IF sOk THEN Append(anomStream, AnomalyValues(a))
                                   ELSE anomStream
                  /\ anomIndex' = IF zOk
                                  THEN anomIndex \cup
                                         {[key |-> tk, score |-> a.Timestamp,
                                           member |-> AnomalyValues(a)]}
                                  ELSE anomIndex
                  /\ anomalyErrors' = anomalyErrors + (IF sOk THEN 0 ELSE 1)
                                                    + (IF zOk THEN 0 ELSE 1)
                  /\ anomalyCounter' = anomalyCounter + (IF zOk THEN 1 ELSE 0)
             ELSE /\ sOk /\ zOk
                  /\ UNCHANGED <<emitted, anomStream, anomIndex, anomalyErrors,
                                 anomalyCounter>>
    /\ UNCHANGED <<cfg, dpc, dctxDone, subClosed>>

\* main: a signal arrives and cancel() is called.
DetCancel ==
    /\ ~dctxDone
    /\ dctxDone' = TRUE
    /\ UNCHANGED <<cfg, dpc, subClosed, windows, hist, heard, emitted, anomStream,
                   anomIndex, anomalyErrors, anomalyCounter>>

\* The broker ends the subscription: pubsub.Channel() is closed.
SubClose ==
    /\ ~subClosed
    /\ subClosed' = TRUE
    /\ UNCHANGED <<cfg, dpc, dctxDone, windows, hist, heard, emitted, anomStream,
                   anomIndex, anomalyErrors, anomalyCounter>>

\* runAnomalyDetector: the select takes "case <-ctx.Done()" or receives
\* !ok from the closed channel, and the loop returns.
DetReturn ==
    /\ LoopRuns(dpc)
    /\ dctxDone \/ subClosed
    /\ dpc' = "returned"
    /\ UNCHANGED <<cfg, dctxDone, subClosed, windows, hist, heard, emitted,
                   anomStream, anomIndex, anomalyErrors, anomalyCounter>>

----------------------------------------------------------------------------
(* Specifications                                                          *)

\* What a step of the Client leaves alone.
BreakerFrame == UNCHANGED <<ingVars, normVars, pubVars, detVars, fnVars, apiVars>>

NextBreaker ==
    \/ Heal /\ BreakerFrame
    \/ \E t \in Threads, o \in Ops : Call(t, o) /\ BreakerFrame
    \/ \E t \in Threads, ok \in BOOLEAN : Attempt(t, ok) /\ BreakerFrame
    \/ \E t \in Threads : CbAdd(t) /\ BreakerFrame
    \/ \E t \in Threads : CbLoad(t) /\ BreakerFrame
    \/ \E t \in Threads : CbCas(t) /\ BreakerFrame
    \/ \E t \in Threads : CbReset(t) /\ BreakerFrame
    \/ \E t \in Threads : CbHalf(t) /\ BreakerFrame
    \/ \E t \in Threads : Return(t) /\ BreakerFrame

InitBreaker == CBInit /\ IngestIdle /\ NormInit(<<>>) /\ PubInit /\ DetIdle /\ FnIdle /\ ApiIdle

SpecBreaker == InitBreaker /\ [][NextBreaker]_vars

\* Every goroutine that can take a step eventually takes one: the Go
\* scheduler starves no runnable goroutine, and callers keep calling.
FairBreaker ==
    SpecBreaker /\ \A t \in Threads : WF_vars(ThreadNext(t) /\ BreakerFrame)

\* What a step of the feed's tasks leaves alone.
IngestFrame == UNCHANGED <<cbVars, normVars, pubVars, detVars, fnVars, apiVars>>

NextIngest ==
    \/ \E ok \in BOOLEAN : WsDial(ok) /\ IngestFrame
    \/ \E ok \in BOOLEAN : WsRead(ok) /\ IngestFrame
    \/ \E ok \in BOOLEAN, n \in 0..MaxBatch : Poll(ok, n) /\ IngestFrame
    \/ Offer /\ IngestFrame
    \/ \E w \in Writers, ok \in BOOLEAN : WriterStep(w, ok) /\ IngestFrame

InitIngest == IngestInit /\ CBInit /\ NormInit(<<>>) /\ PubInit /\ DetIdle /\ FnIdle /\ ApiIdle

SpecIngest == InitIngest /\ [][NextIngest]_vars

\* Events the feed delivers in a run that ends with a shutdown.
MaxStopOffers == 2

\* One feed of ingest and the cancellation of its root context.
NextIngestStop ==
    \/ \E ok \in BOOLEAN : WsDial(ok) /\ IngestFrame
    \/ \E ok \in BOOLEAN : WsRead(ok) /\ offered < MaxStopOffers /\ IngestFrame
    \/ \E ok \in BOOLEAN, n \in 0..1 :
          Poll(ok, n) /\ offered < MaxStopOffers /\ IngestFrame
    \/ Offer /\ IngestFrame
    \/ \E w \in Writers, ok \in BOOLEAN : WriterStep(w, ok) /\ IngestFrame
    \/ HttpReturn /\ IngestFrame
    \/ \E w \in Writers : WriterReturn(w) /\ IngestFrame
    \/ CloseEvents /\ IngestFrame
    \/ IngestCancel /\ IngestFrame
    \/ BoTick /\ IngestFrame

SpecIngestStop == InitIngest /\ [][NextIngestStop]_vars

\* Every goroutine of the feed keeps running: a dial ends (the dialer's
\* handshake timeout bounds it), an event at hand is offered, a ready
\* "case <-ctx.Done()" is taken, a writer takes an event that is buffered,
\* close(events) follows the reader's return.
\* What the feed delivers, and when, is the feed's business: a read that
\* waits for the next message has no fairness.
FairIngestStop ==
    /\ SpecIngestStop
    /\ WF_vars((\E ok \in BOOLEAN : WsDial(ok)) /\ IngestFrame)
    /\ WF_vars(Offer /\ IngestFrame)
    /\ WF_vars(HttpReturn /\ IngestFrame)
    /\ \A w \in Writers : WF_vars(WriterReturn(w) /\ IngestFrame)
    /\ \A w \in Writers :
          WF_vars((\E ok \in BOOLEAN : WriterStep(w, ok)) /\ IngestFrame)
    /\ WF_vars(CloseEvents /\ IngestFrame)

\* The streaming reader over a long run: the feed fails and recovers, time
\* passes, and the root context may be cancelled.
NextReconnect ==
    \/ \E ok \in BOOLEAN : WsDial(ok) /\ IngestFrame
    \/ \E ok \in BOOLEAN : WsRead(ok) /\ offered < MaxStopOffers /\ IngestFrame
    \/ Offer /\ IngestFrame
    \/ \E w \in Writers, ok \in BOOLEAN : WriterStep(w, ok) /\ IngestFrame
    \/ BoTick /\ IngestFrame
    \/ CloseEvents /\ IngestFrame
    \/ IngestCancel /\ IngestFrame

InitReconnect == InitIngest /\ feed = "ws"

SpecReconnect == InitReconnect /\ [][NextReconnect]_vars

\* The reader keeps running: a dial ends, an event at hand is offered and
\* close(events) follows the reader's return.
FairReconnect ==
    /\ SpecReconnect
    /\ WF_vars((\E ok \in BOOLEAN : WsDial(ok)) /\ IngestFrame)
    /\ WF_vars(Offer /\ IngestFrame)
    /\ WF_vars(CloseEvents /\ IngestFrame)

\* What a step of the API leaves alone.
ApiFrame == UNCHANGED <<cbVars, ingVars, normVars, pubVars, detVars, fnVars>>

\* Mutations of the API and the archival sweep on one list.
NextResolver ==
    \/ CreateAnomaly /\ ApiFrame
    \/ \E id \in KnownIds : UpdateRead(id) /\ ApiFrame
    \/ UpdateWrite /\ ApiFrame
    \/ \E id \in KnownIds : DeleteRead(id) /\ ApiFrame
    \/ DeleteRem /\ ApiFrame
    \/ \E k \in 1..Len(alist) : ArchiveSweep(k) /\ ApiFrame

InitResolver ==
    /\ ApiInit
    /\ CBInit /\ IngestIdle /\ NormInit(<<>>) /\ PubInit /\ DetIdle /\ FnIdle

SpecResolver == InitResolver /\ [][NextResolver]_vars

\* What a step of the normalizer leaves alone.
NormFrame == UNCHANGED <<cbVars, ingVars, pubVars, detVars, fnVars, apiVars>>

NextNormalize ==
    \/ \E ok \in BOOLEAN : NRead(ok) /\ NormFrame
    \/ NAdvance /\ NormFrame
    \/ NSelect /\ NormFrame
    \/ \E i \in DOMAIN raw, ok \in BOOLEAN : TaskRun(i, ok) /\ NormFrame

\* The normalizer in front of a raw:events longer than its pool is wide.
InitNormalize ==
    /\ NormInit(LoadStream(maxWorkers + MaxBacklog))
    /\ CBInit /\ IngestIdle /\ PubInit /\ DetIdle /\ FnIdle /\ ApiIdle

SpecNormalize == InitNormalize /\ [][NextNormalize]_vars

\* The normalizer under load in front of streams that begin with well-formed
\* entries, or with an unknown symbol and an entry that does not parse.
InitAccounting ==
    /\ \E k \in {0, 2} : NormInit(ShiftedStream(maxWorkers + 1, k))
    /\ CBInit /\ IngestIdle /\ PubInit /\ DetIdle /\ FnIdle /\ ApiIdle

SpecAccounting == InitAccounting /\ [][NextNormalize]_vars

\* What a step of the publisher leaves alone.
PubFrame == UNCHANGED <<cbVars, ingVars, normVars, detVars, fnVars, apiVars>>

NextPipeline ==
    \/ \E ok \in BOOLEAN : NRead(ok) /\ NormFrame
    \/ NAdvance /\ NormFrame
    \/ NSelect /\ NormFrame
    \/ \E i \in DOMAIN raw, ok \in BOOLEAN : TaskRun(i, ok) /\ NormFrame
    \/ \E ok \in BOOLEAN : PRead(ok) /\ PubFrame
    \/ \E out \in PipeOutcomes : PPublish(out) /\ PubFrame
    \/ PRestart /\ PubFrame

\* The normalizer and the publisher behind a short raw:events.
InitPipeline ==
    /\ \E stream \in ShortStreams : NormInit(stream)
    /\ CBInit /\ IngestIdle /\ PubInit /\ DetIdle /\ FnIdle /\ ApiIdle

SpecPipeline == InitPipeline /\ [][NextPipeline]_vars

NextPublisher ==
    \/ \E ok \in BOOLEAN : PRead(ok) /\ PubFrame
    \/ \E out \in PipeOutcomes : PPublish(out) /\ PubFrame
    \/ PRestart /\ PubFrame

InitPublisher ==
    /\ \E entries \in NormalizedStreams : NormLoaded(entries)
    /\ CBInit /\ IngestIdle /\ PubInit /\ DetIdle /\ FnIdle /\ ApiIdle

\* The publisher alone in front of a normalized:events it did not fill.
SpecPublisher == InitPublisher /\ [][NextPublisher]_vars

\* The normalizer with a shutdown signal.
NextShutdown ==
    \/ \E ok \in BOOLEAN : NRead(ok) /\ NormFrame
    \/ NAdvance /\ NormFrame
    \/ NSelect /\ NormFrame
    \/ \E i \in DOMAIN raw, ok \in BOOLEAN : TaskRun(i, ok) /\ NormFrame
    \/ Cancel /\ NormFrame

SpecShutdown == InitPipeline /\ [][NextShutdown]_vars

\* The normalizer's goroutines keep running until they return.
FairShutdown ==
    /\ SpecShutdown
    /\ WF_vars((\E ok \in BOOLEAN : NRead(ok)) /\ NormFrame)
    /\ WF_vars(NAdvance /\ NormFrame)
    /\ WF_vars(NSelect /\ NormFrame)
    /\ \A i \in 1..MaxRaw : WF_vars((\E ok \in BOOLEAN : TaskRun(i, ok)) /\ NormFrame)

\* What a step of the detector leaves alone.
DetFrame == UNCHANGED <<cbVars, ingVars, normVars, pubVars, fnVars, apiVars>>

NextDetector ==
    \/ DetectBad /\ DetFrame
    \/ \E tk \in TickersOf(cfg), x \in PricesOf(cfg), sOk, zOk \in BOOLEAN :
          DetectTick(tk, x, sOk, zOk) /\ DetFrame

\* The detector with a small window.
InitDetector ==
    /\ \E c \in SmallConfigs : DetInit(c)
    /\ CBInit /\ IngestIdle /\ NormInit(<<>>) /\ PubInit /\ FnIdle /\ ApiIdle

SpecDetector == InitDetector /\ [][NextDetector]_vars

\* The detector with the default configuration (W = 20, threshold 3.0).
InitReference ==
    /\ DetInit(DefaultConfig)
    /\ CBInit /\ IngestIdle /\ NormInit(<<>>) /\ PubInit /\ FnIdle /\ ApiIdle

SpecReference == InitReference /\ [][NextDetector]_vars

\* The detector under a window of five and the default threshold.
InitFive ==
    /\ DetInit(FiveConfig)
    /\ CBInit /\ IngestIdle /\ NormInit(<<>>) /\ PubInit /\ FnIdle /\ ApiIdle

SpecFive == InitFive /\ [][NextDetector]_vars

\* What a call of a function of pkg/models leaves alone.
FnFrame == UNCHANGED <<cbVars, ingVars, normVars, pubVars, detVars, apiVars>>

NextModels ==
    \/ RawRoundTrip /\ FnFrame
    \/ ParseRawMap /\ FnFrame
    \/ JSONRoundTrip /\ FnFrame

InitModels ==
    /\ \/ FnInit(RawTickInputs)
       \/ FnInit(MapInputs)
       \/ FnInit(NormalizedTickInputs)
    /\ CBInit /\ IngestIdle /\ NormInit(<<>>) /\ PubInit /\ DetIdle /\ ApiIdle

\* One call of RawTickFromMap or NormalizedTickFromJSON on one input.
SpecModels == InitModels /\ [][NextModels]_vars

NextConfig == CallLoad /\ FnFrame

InitConfig ==
    /\ FnInit(ConfigInputs)
    /\ CBInit /\ IngestIdle /\ NormInit(<<>>) /\ PubInit /\ DetIdle /\ ApiIdle

\* One call of config.Load under one environment.
SpecConfig == InitConfig /\ [][NextConfig]_vars

\* Calls of DB.Transaction, one after the other.
NextDB ==
    \/ \E ok \in BOOLEAN : TxBegin(ok) /\ FnFrame
    \/ \E res \in {"nil", "error", "panic"} : TxFn(res) /\ FnFrame
    \/ TxReturn /\ FnFrame
    \/ \E ok \in BOOLEAN : TxDefer(ok) /\ FnFrame

InitDB ==
    /\ DBInit
    /\ CBInit /\ IngestIdle /\ NormInit(<<>>) /\ PubInit /\ DetIdle /\ ApiIdle

SpecDB == InitDB /\ [][NextDB]_vars

\* Messages the detector receives in a run that is shut down.
MaxStopTicks == 2

\* normalized:events in a run of the publisher that is shut down.
StopStream ==
    << NormalizedEntry(Text("BTCUSD"), NumText(30000, 0), NumText(T1, 0), Text("crypto")),
       NormalizedEntry(Text("BTCUSD"), NumText(30001, 0), NumText(T2, 0), Text("crypto")) >>

\* The detector and the publisher, each with its shutdown signal; the
\* detector's subscription can also be closed by the broker.
NextStop ==
    \/ DetectBad /\ heard < MaxStopTicks /\ DetFrame
    \/ \E x \in {1, 2}, sOk, zOk \in BOOLEAN :
          DetectTick("BTCUSD", x, sOk, zOk) /\ heard < MaxStopTicks /\ DetFrame
    \/ DetCancel /\ DetFrame
    \/ SubClose /\ DetFrame
    \/ DetReturn /\ DetFrame
    \/ \E ok \in BOOLEAN : PRead(ok) /\ PubFrame
    \/ \E out \in PipeOutcomes : PPublish(out) /\ PubFrame
    \/ PCancel /\ PubFrame
    \/ PReturn /\ PubFrame

InitStop ==
    /\ DetInit([AnomalyWindowSize |-> 2, AnomalyThreshold |-> SmallThreshold])
    /\ NormLoaded(StopStream)
    /\ CBInit /\ IngestIdle /\ PubInit /\ FnIdle /\ ApiIdle

SpecStop == InitStop /\ [][NextStop]_vars

\* The select of the detector picks among its ready cases at random, so a
\* ready "case <-ctx.Done()" or closed channel is taken eventually; the
\* publisher's loop keeps running: a batch at hand is worked off and the top
\* of the loop is reached again.
FairStop ==
    /\ SpecStop
    /\ WF_vars(DetReturn /\ DetFrame)
    /\ WF_vars((\E out \in PipeOutcomes : PPublish(out)) /\ PubFrame)
    /\ WF_vars(PReturn /\ PubFrame)

\* The pipeline when the store answers in the end and no process is
\* cancelled: every loop and every admitted task keeps running. A restart of
\* the publisher may happen but need not.
FairPipeline ==
    /\ SpecPipeline
    /\ WF_vars(NRead(TRUE) /\ NormFrame)
    /\ WF_vars(NAdvance /\ NormFrame)
    /\ WF_vars(NSelect /\ NormFrame)
    /\ \A i \in 1..MaxRaw : WF_vars((\E ok \in BOOLEAN : TaskRun(i, ok)) /\ NormFrame)
    /\ WF_vars(PRead(TRUE) /\ PubFrame)
    /\ WF_vars((\E out \in PipeOutcomes : PPublish(out)) /\ PubFrame)

----------------------------------------------------------------------------
(* Properties of the circuit breaker                                       *)

\* Goroutine t leaves the failure branch of checkCircuitBreaker in this step.
FailCheckEnds(t) ==
    /\ pc[t] \in {"cb_load", "cb_cas"}
    /\ pc'[t] \notin {"cb_load", "cb_cas"}

\* C1: with the breaker closed, the attempt whose failure is the 5th recorded
\* in a row (no success recorded in between) leaves the breaker open when its
\* bookkeeping ends; and a call that begins while the breaker is open goes
\* straight to returning ErrCircuitBreakerOpen, having issued no store
\* command, and issues none before it returns.
C1_OpensAtFiveAndFailsFast ==
    [][\A t \in Threads :
        /\ (FailCheckEnds(t) /\ state = Closed /\ streak >= 5) => state' = Open
        /\ (pc[t] = "idle" /\ pc'[t] # "idle" /\ state = Open)
              => (pc'[t] = "ret_open" /\ tries'[t] = 0)
        /\ pc[t] = "ret_open" => (pc'[t] \in {"ret_open", "idle"} /\ tries[t] = 0)
      ]_vars

\* C1 witness: the breaker is open after 5 failures in a row and a call that
\* began meanwhile is returning ErrCircuitBreakerOpen.
C1_Witness ==
    /\ state = Open
    /\ streak >= 5
    /\ \E t \in Threads : pc[t] = "ret_open" /\ tries[t] = 0

\* C2 (as claimed): while the breaker is half-open, a recorded success resets
\* the failure counter to 0 and a failed attempt puts the breaker back to open.
C2_HalfOpenFailureReopens ==
    [][\A t \in Threads :
        /\ (state = HalfOpen /\ pc[t] = "cb_reset" /\ pc'[t] # "cb_reset")
              => failureCount' = 0
        /\ (state = HalfOpen /\ FailCheckEnds(t)) => state' = Open
      ]_vars

\* C3 (as claimed): an open breaker in front of a store that answers every
\* command successfully eventually leaves the open state.
C3_OpenBreakerRecovers == (state = Open /\ healthy) ~> (state # Open)

----------------------------------------------------------------------------
(* Properties of the ingest channel                                        *)

\* The elements of a sequence.
Range(q) == {q[i] : i \in 1..Len(q)}

----------------------------------------------------------------------------
(* Properties of the normalizer                                            *)

\* The raw entries behind the entries of normalized:events.
Sources == {normalized[k].src : k \in 1..Len(normalized)}

\* C5: at most maxWorkers (50) admitted tasks are unfinished at any moment;
\* a message that reaches admission while 50 tasks are in flight is dropped,
\* NormalizeErrors goes up by exactly one, no slot is taken and the reader
\* moves on at once (admission is always able to take its step); a dropped
\* message is never normalized.
C5_BoundedPoolDropsWhenFull ==
    /\ [](Cardinality(inflight) <= maxWorkers)
    /\ [](npc = "select" => ENABLED (NSelect /\ NormFrame))
    /\ [](\A i \in DOMAIN done : done[i] = "dropped" => i \notin Sources \cup inflight)
    /\ [][(seen' # seen /\ Cardinality(inflight) = maxWorkers)
            => /\ done'[batch[bi]] = "dropped"
               /\ normalizeErrors' = normalizeErrors + 1
               /\ inflight' = inflight
               /\ normalized' = normalized
               /\ bi' = bi + 1]_vars
    /\ [][(\E i \in DOMAIN done : done[i] = "dropped" /\ done'[i] # "dropped")
            => FALSE]_vars

C5_Witness ==
    /\ Cardinality(inflight) = maxWorkers
    /\ \E i \in DOMAIN done : done[i] = "dropped"
    /\ \E i \in DOMAIN done : done[i] = "appended" /\ i \in Sources

\* C6: the normalizer's cursor starts at "0-0"; it equals the identifier of
\* the message at hand when that message is admitted or dropped; no step
\* moves it back, and a task's return (a validation failure, a failed
\* append) leaves it alone; the messages handed to admission carry strictly
\* increasing identifiers, so no entry is handed over twice.
C6_CursorOnlyForward ==
    /\ lastID = 0
    /\ [](npc = "select" => lastID = batch[bi])
    /\ [][lastID' >= lastID]_vars
    /\ [][done' # done /\ seen' = seen => lastID' = lastID]_vars
    /\ [](\A a, b \in 1..Len(seen) : a < b => seen[a] < seen[b])
    /\ [](Len(seen) > 0 => seen[Len(seen)] <= lastID)

C6_Witness ==
    /\ lastID = Len(raw)
    /\ npc = "xread"
    /\ Len(seen) = Len(raw)
    /\ \E i \in DOMAIN done : done[i] = "dropped"
    /\ \E i \in DOMAIN done : done[i] = "append_err"

\* The RawTick an entry of raw:events parses to.
TickOf(i) == RawTickFromMap(raw[i]).tick

\* An entry of raw:events that is a valid RawTick with a symbol of the table.
ValidKnown(i) == RawTickFromMap(raw[i]).ok /\ TickOf(i).Symbol \in DOMAIN symbolMap

\* The sanitized price of an entry of raw:events.
SanitizedRawPrice(i) == SanitizePrice(ParseFloat(raw[i].price).val)

\* The numeral x has 8 decimals and is the one nearest to the price p.
IsRoundedTo8(x, p) ==
    /\ x.t = "str" /\ x.form = "numeral"
    /\ x.val.nano % 10 = 0
    /\ x.val.whole - p.whole \in {0, 1}
    /\ LET d == (x.val.whole - p.whole) * 1000000000 + x.val.nano - p.nano
       IN -5 < d /\ d <= 5

\* What C7 states of an entry of normalized:events but for its price.
DerivedButPrice(e) ==
    /\ e.src \in Range(seen)
    /\ ValidKnown(e.src)
    /\ e.ticker = Text(symbolMap[TickOf(e.src).Symbol])
    /\ e.ts_ms = NumText(RawTimestamp(raw[e.src].timestamp).val.ms, 0)
    /\ e.sector = Text(IF e.ticker.s \in DOMAIN sectorMap
                       THEN sectorMap[e.ticker.s] ELSE "unknown")

\* Entries that failed parsing, had an unknown symbol or were shed have no
\* entry on normalized:events.
NothingFromRejected ==
    \A i \in DOMAIN raw :
        (~ValidKnown(i) \/ done[i] \in {"parse_err", "unknown_symbol", "dropped"})
            => i \notin Sources

----------------------------------------------------------------------------
(* Properties of the pipeline from raw:events to quotes:pubsub             *)

\* The entries of normalized:events published on quotes:pubsub.
PublishedIdx == {pubsub[k].idx : k \in 1..Len(pubsub)}

C9_RawOrderKept ==
    /\ \A a, b \in 1..Len(normalized) :
          (a < b /\ normalized[a].ticker = normalized[b].ticker)
              => normalized[a].src < normalized[b].src
    /\ \A a, b \in 1..Len(pubsub) :
          (a < b /\ restarts = 0 /\ pubsub[a].Ticker = pubsub[b].Ticker)
              => normalized[pubsub[a].idx].src < normalized[pubsub[b].idx].src

\* C9, amended: the publisher handles the entries of normalized:events one
\* by one in stream order and publishes in that order; from raw:events to
\* normalized:events the order of two entries is kept only when the task of
\* the first had returned before the second was admitted.
C9_StreamOrderKept ==
    /\ \A x \in 1..Len(applied) : applied[x] = x
    /\ \A a, b \in 1..Len(pubsub) :
          (a < b /\ restarts = 0) => pubsub[a].idx < pubsub[b].idx
    /\ \A a, b \in 1..Len(normalized) :
          normalized[a].src \in doneAtAdmit[normalized[b].src] => a < b

C9_Witness ==
    /\ Len(normalized) = 2
    /\ normalized[1].ticker = normalized[2].ticker
    /\ normalized[1].src > normalized[2].src
    /\ Len(pubsub) = 2
    /\ restarts = 0

\* C10: for every ticker the ts_ms of quotes:latest:<ticker> is at least
\* every ts_ms published on quotes:pubsub for that ticker so far.
C10_LatestNeverOlder ==
    \A k \in 1..Len(pubsub) :
        /\ pubsub[k].Ticker \in DOMAIN latest
        /\ latest[pubsub[k].Ticker].ts_ms >= pubsub[k].Timestamp

----------------------------------------------------------------------------
(* Properties of AddToStream's retries                                     *)

\* C13 as stated: one call of AddToStream makes at most 3 attempts against
\* the store before it returns the failure.
C13_AtMostThreeAttempts ==
    \A t \in Threads : op[t] = "xadd" => tries[t] <= 3

\* C13, amended: one call of AddToStream makes at most 4 attempts, the first
\* one and at most 3 retries, and returns the failure only after the 4th.
C13_AtMostFourAttempts ==
    \A t \in Threads :
        op[t] = "xadd" =>
            /\ tries[t] <= 1 + MaxRetries
            /\ pc[t] = "ret_err" => tries[t] = 1 + MaxRetries

C13_Witness ==
    \E t \in Threads : op[t] = "xadd" /\ pc[t] = "ret_err" /\ tries[t] = 4

\* The steps of goroutine t inside one call (the call neither begins nor
\* returns).
InCall(t) == pc[t] # "idle" /\ pc'[t] # "idle"

\* C14: a call of AddToStream that found the breaker not open returns
\* success exactly when an attempt succeeded; after a successful attempt no
\* further XADD is issued (a success at the first attempt is the only XADD);
\* a failed attempt is followed by another while fewer than 1 + 3 were made,
\* and the failure is returned only when none is left.
C14_SuccessIffAnAttemptSucceeds ==
    [][\A t \in Threads :
          (op[t] = "xadd" /\ pc'[t] # pc[t]) =>
              /\ pc'[t] = "ret_ok" <=> pc[t] = "cb_half"
              /\ pc[t] = "attempt" =>
                    /\ tries'[t] = tries[t] + 1
                    /\ pc'[t] \in {"cb_reset", "cb_add"}
              /\ pc[t] = "cb_reset" => pc'[t] = "cb_half"
              /\ pc[t] \in {"cb_reset", "cb_half", "ret_ok"} =>
                    (pc'[t] # "attempt" /\ (InCall(t) => tries'[t] = tries[t]))
              /\ pc[t] = "cb_add" => pc'[t] = "cb_load"
              /\ (pc[t] \in {"cb_load", "cb_cas"} /\ pc'[t] # "cb_cas") =>
                    pc'[t] = IF tries[t] < 1 + MaxRetries THEN "attempt" ELSE "ret_err"
              /\ pc[t] = "ret_ok" => pc'[t] = "idle"]_vars

C14_Witness ==
    \E t, u \in Threads :
        /\ op[t] = "xadd" /\ pc[t] = "ret_ok" /\ tries[t] = 1
        /\ op[u] = "xadd" /\ pc[u] = "ret_ok" /\ tries[u] = 3

----------------------------------------------------------------------------
(* Properties of the error paths of the publisher and the normalizer       *)

\* A step in which the publisher handles a message.
PublisherHandles == applied' # applied /\ Len(applied') > 0

\* C15: for every message it reads the publisher runs the batch (HSET of
\* quotes:latest:<ticker>, then PUBLISH on quotes:pubsub) once and never
\* again: a handled message publishes at most once, exactly one of the two
\* counters goes up, by one; a batch that did not publish counts an error, a
\* counted success has stored and published the tick; the next message
\* handled is the next of the stream.
C15_OneBatchPerMessage ==
    [][PublisherHandles =>
          LET tick == TickOfValues(normalized[plast + 1]) IN
          /\ plast' = plast + 1
          /\ applied' = Append(applied, plast + 1)
          /\ \/ pubsub' = pubsub
             \/ pubsub' = Append(pubsub, [idx |-> plast + 1] @@ tick)
          /\ \/ /\ cachePubErrors' = cachePubErrors + 1
                /\ cachePubCounter' = cachePubCounter
             \/ /\ cachePubCounter' = cachePubCounter + 1
                /\ cachePubErrors' = cachePubErrors
          /\ pubsub' = pubsub => cachePubErrors' = cachePubErrors + 1
          /\ cachePubCounter' # cachePubCounter =>
                /\ pubsub' # pubsub
                /\ tick.Ticker \in DOMAIN latest'
                /\ latest'[tick.Ticker] = [price |-> tick.Price, ts_ms |-> tick.Timestamp]
          /\ ppc' \in {"publish", "xread"}]_vars
    /\ [][~PublisherHandles =>
            /\ pubsub' = pubsub /\ latest' = latest
            /\ cachePubErrors' = cachePubErrors
            /\ cachePubCounter' = cachePubCounter]_vars

C15_Witness ==
    /\ cachePubErrors = 1
    /\ cachePubCounter = 1
    /\ applied = <<1, 2>>
    /\ Len(pubsub) = 1
    /\ restarts = 0

\* An entry of raw:events whose symbol (cleaned as RawTickFromMap cleans it)
\* the symbol table does not have.
UnknownSymbol(i) ==
    /\ raw[i].symbol.t = "str"
    /\ SanitizeString(raw[i].symbol.s) \notin DOMAIN symbolMap

\* C16: an entry of raw:events whose symbol is not in the symbol table never
\* has an entry on normalized:events; the step that ends its handling adds
\* exactly one to NormalizeErrors, appends nothing and finds the cursor at or
\* past the entry and leaves it there; once ended, an entry is not taken up
\* again, and it is handed to admission only once.
C16_UnknownSymbolCountedAndSkipped ==
    /\ [](\A i \in DOMAIN raw : UnknownSymbol(i) => i \notin Sources)
    /\ [](\A i \in DOMAIN raw :
            (UnknownSymbol(i) /\ RawTickFromMap(raw[i]).ok /\ done[i] # "none")
                => done[i] = "unknown_symbol")
    /\ [][\A i \in DOMAIN raw :
            (UnknownSymbol(i) /\ done[i] = "none" /\ done'[i] # "none") =>
                /\ normalizeErrors' = normalizeErrors + 1
                /\ normalized' = normalized
                /\ lastID >= i /\ lastID' = lastID
                /\ \A j \in DOMAIN raw \ {i} : done'[j] = done[j]]_vars
    /\ [][\A i \in DOMAIN raw : done[i] # "none" => done'[i] = done[i]]_vars
    /\ [](\A i \in DOMAIN raw :
            Cardinality({k \in 1..Len(seen) : seen[k] = i}) <= 1)
    /\ [][normalizeErrors' # normalizeErrors =>
            \E i \in DOMAIN raw : done[i] = "none" /\ done'[i] # "none"]_vars

C16_Witness ==
    /\ \E i \in DOMAIN raw : done[i] = "unknown_symbol" /\ lastID = Len(raw)
    /\ \E i \in DOMAIN raw : done[i] = "appended"
    /\ normalizeErrors = 1
    /\ npc = "xread"

----------------------------------------------------------------------------
(* Properties of what ingest appends to raw:events                         *)

\* The Values of the entries of raw:events the writers have appended.
RawEvents == [k \in 1..Len(rawLog) |-> FeedMessage(rawLog[k])]

\* The value rules of a RawTick on the fields of an entry: source and symbol
\* well-formed, 0 < price < 1,000,000, timestamp within the last 24 hours.
IsValidatedRawTick(m) ==
    /\ \A f \in {"source", "symbol", "price", "timestamp"} : m[f].t = "str"
    /\ m.source.form = "other" /\ SourcePattern(m.source.s)
    /\ m.symbol.form = "other" /\ TickerPattern(m.symbol.s)
    /\ ParseFloat(m.price).ok /\ ValidPrice(ParseFloat(m.price).val)
    /\ ParseTime(m.timestamp).ok
    /\ ParseTime(m.timestamp).val.ms <= NowMs
    /\ ParseTime(m.timestamp).val.ms >= NowMs - DayMs

\* C19: every entry an ingest writer appends to raw:events is a validated
\* RawTick (the four fields, well-formed source and symbol, price and
\* timestamp within their ranges).
C19_OnlyValidatedRawTicks ==
    \A k \in 1..Len(RawEvents) : IsValidatedRawTick(RawEvents[k])

----------------------------------------------------------------------------
(* Properties of the normalizer's shutdown                                 *)

\* C18: once the root context is cancelled, startNormalization eventually
\* returns.
C18_ReaderReturnsAfterCancel == ctxDone ~> (npc = "returned")

----------------------------------------------------------------------------
(* Properties of the anomaly detector                                      *)

RECURSIVE SumSeq(_)
\* The sum of the values of a sequence.
SumSeq(q) == IF q = <<>> THEN 0 ELSE Head(q) + SumSeq(Tail(q))

RECURSIVE SqSumSeq(_)
\* The sum of the squares of the values of a sequence.
SqSumSeq(q) == IF q = <<>> THEN 0 ELSE Head(q) * Head(q) + SqSumSeq(Tail(q))

Min(a, b) == IF a < b THEN a ELSE b

\* The last min(k, size) of the k values of h.
LastVals(h, size) ==
    SubSeq(h, IF Len(h) > size THEN Len(h) - size + 1 ELSE 1, Len(h))

Added == {tk \in DOMAIN hist' : tk \notin DOMAIN hist \/ hist'[tk] # hist[tk]}

\* From the values of a window that contains x: whether std > 0 and
\* |x - mean| / std >= threshold, with n * n * variance = n * Q - S * S.
ShouldEmit(vals, x, threshold) ==
    LET n == Len(vals)
        v == n * SqSumSeq(vals) - SumSeq(vals) * SumSeq(vals)
        d == n * x - SumSeq(vals)
    IN v > 0 /\ d * d >= threshold * threshold * v

\* C12: a received tick makes the detector emit an anomaly exactly when,
\* over the last min(k, W) prices of its ticker including its own price x,
\* std > 0 and |x - mean| / std >= threshold; the anomaly carries the tick's
\* ticker, x, that z and the tick's timestamp; nothing else emits.
C12_EmitsIffZReachesThreshold ==
    [][/\ Added = {} => emitted' = emitted
       /\ \A tk \in Added :
            LET h == hist'[tk]
                x == h[Len(h)]
                vals == LastVals(h, cfg.AnomalyWindowSize)
                n == Len(vals)
            IN IF ShouldEmit(vals, x, cfg.AnomalyThreshold)
               THEN /\ Len(emitted') = Len(emitted) + 1
                    /\ SubSeq(emitted', 1, Len(emitted)) = emitted
                    /\ emitted'[Len(emitted')].event =
                          [Ticker |-> tk, Price |-> x, Timestamp |-> heard',
                           ZScore |-> [num |-> Abs(n * x - SumSeq(vals)),
                                       rad |-> n * SqSumSeq(vals)
                                                - SumSeq(vals) * SumSeq(vals)]]
               ELSE emitted' = emitted]_vars

C12_Witness ==
    /\ Len(emitted) = 1
    /\ emitted[1].k = 2
    /\ \E tk \in DOMAIN windows :
          /\ emitted[1].event.Ticker = tk
          /\ Len(hist[tk]) = 3
          /\ ~StdIsZero(stats(windows[tk]))

\* C17: for an emitted anomaly both writes are attempted; AnomalyCounter
\* goes up by one exactly when both the append to anomalies:stream and the
\* ZADD succeeded, and AnomalyErrors by one for each write that failed.
C17_CountersFollowTheWrites ==
    [][Len(emitted') > Len(emitted) =>
          LET streamOk == anomStream' # anomStream
              indexOk == anomIndex' # anomIndex
          IN /\ anomalyCounter' =
                    anomalyCounter + (IF streamOk /\ indexOk THEN 1 ELSE 0)
             /\ anomalyErrors' = anomalyErrors + (IF streamOk THEN 0 ELSE 1)
                                               + (IF indexOk THEN 0 ELSE 1)]_vars

\* The first m prices of h are all the base price.
AllBase(h, m) == Len(h) >= m /\ \A i \in 1..m : h[i] = BasePrice

\* The anomalies emitted for the k-th tick of a ticker.
EmittedAt(tk, k) ==
    {i \in 1..Len(emitted) : emitted[i].event.Ticker = tk /\ emitted[i].k = k}

\* C20: with W = 20 and threshold 3, while the first ticks of a ticker (up
\* to 19) are all 100 none of them emits; when the 20th is 1000, exactly one
\* anomaly is emitted for it, computed with n = 20, mean = 145 (sum 2900),
\* variance = 38475 and z = Sqrt(19), about 4.36.
C20_ReferenceSpike ==
    \A tk \in DOMAIN hist :
        LET h == hist[tk] IN
        /\ \A k \in 1..19 : AllBase(h, k) => EmittedAt(tk, k) = {}
        /\ (Len(h) >= 20 /\ AllBase(h, 19) /\ h[20] = SpikePrice) =>
              /\ Cardinality(EmittedAt(tk, 20)) = 1
              /\ \A i \in EmittedAt(tk, 20) :
                    /\ emitted[i].st.n = 20
                    /\ emitted[i].st.sum = 145 * 20
                    /\ emitted[i].st.varNum = 38475 * 20 * 20
                    /\ emitted[i].event.Price = 1000
                    /\ emitted[i].event.ZScore.num * emitted[i].event.ZScore.num
                          = 19 * emitted[i].event.ZScore.rad
                    /\ 435 * 435 < 19 * 100 * 100 /\ 19 * 100 * 100 < 437 * 437

C20_Witness ==
    \E tk \in DOMAIN hist :
        /\ Len(hist[tk]) = 20
        /\ AllBase(hist[tk], 19)
        /\ hist[tk][20] = SpikePrice
        /\ Len(emitted) = 1

----------------------------------------------------------------------------
(* Properties of the conversions of pkg/models                             *)

\* C22: for every valid RawTick r, RawTickFromMap(r.ToMap()) succeeds and
\* returns a tick with r's source, symbol and instant and with r's price up
\* to its 8-decimal text.
C22_RawTickRoundTrip ==
    fnOut.op = "RawTickFromMap(ToMap)" =>
        /\ fnOut.res.ok
        /\ fnOut.res.tick.Source = fnIn.tick.Source
        /\ fnOut.res.tick.Symbol = fnIn.tick.Symbol
        /\ fnOut.res.tick.Timestamp = fnIn.tick.Timestamp
        /\ Format8(fnOut.res.tick.Price) = Format8(fnIn.tick.Price)

\* A field of the map is missing.
FieldMissing(m) == \E f \in DOMAIN m : m[f] = Absent

\* The value is a number or a numeric string.
IsNumeric(x) == x.t = "float64" \/ (x.t = "str" /\ x.form = "numeral")

\* The value is an RFC3339 string or an integer count of milliseconds.
IsTimeOrMillis(x) ==
    \/ x.t = "str" /\ x.form = "rfc3339"
    \/ x.t = "str" /\ x.form = "numeral" /\ x.val.nano = 0
    \/ x.t = "float64" /\ x.val.nano = 0

\* C23: RawTickFromMap returns an error whenever a required field is
\* missing, the price is neither a number nor a numeric string, or the
\* timestamp is neither an RFC3339 string nor an integer of milliseconds.
C23_MalformedMapIsAnError ==
    fnOut.op = "RawTickFromMap" =>
        ((\/ FieldMissing(fnIn.map)
          \/ ~IsNumeric(fnIn.map.price)
          \/ ~IsTimeOrMillis(fnIn.map.timestamp)) => ~fnOut.res.ok)

C23_Witness ==
    /\ fnOut.op = "RawTickFromMap"
    /\ fnIn.map = RawEntry(Text("feedA"), Text("BTCUSD"), Text("not-a-number"),
                           RfcText(T2, 0))
    /\ ~fnOut.res.ok

\* C24: for every valid NormalizedTick t, NormalizedTickFromJSON(t.ToJSON())
\* succeeds and returns a tick equal to t in ticker, price, timestamp and
\* sector.
C24_NormalizedTickRoundTrip ==
    fnOut.op = "NormalizedTickFromJSON(ToJSON)" =>
        /\ fnOut.res.ok
        /\ fnOut.res.tick.Ticker = fnIn.tick.Ticker
        /\ fnOut.res.tick.Price = fnIn.tick.Price
        /\ fnOut.res.tick.Timestamp = fnIn.tick.Timestamp
        /\ fnOut.res.tick.Sector = fnIn.tick.Sector

C24_Witness ==
    /\ fnOut.op = "NormalizedTickFromJSON(ToJSON)"
    /\ fnIn.tick.Price = Price(30001, 123456786)
    /\ fnIn.tick.Timestamp = NowMs - DayMs + 1
    /\ fnOut.res.ok

\* C32: RawTickFromMap never returns success with a timestamp later than now
\* or older than now minus 24 h, whatever representation the timestamp
\* arrives in (RFC3339 string, millisecond string or number).
C32_TimestampWithinLastDay ==
    (fnOut.op = "RawTickFromMap" /\ fnOut.res.ok) =>
        /\ fnOut.res.tick.Timestamp.ms <= NowMs
        /\ fnOut.res.tick.Timestamp.ms >= NowMs - DayMs

----------------------------------------------------------------------------
(* Properties of config.Load                                               *)

\* The URL of each feed of a configuration, in order.
FeedURLs(c) == [i \in 1..Len(c.Feeds) |-> c.Feeds[i].URL]

\* Whether u lists, in order, the trimmed non-empty pieces of parts.
RECURSIVE IsListedOrder(_, _)
IsListedOrder(u, parts) ==
    IF parts = <<>> THEN u = <<>>
    ELSE IF TrimSpace(Head(parts)) = "" THEN IsListedOrder(u, Tail(parts))
    ELSE /\ u # <<>>
         /\ Head(u) = TrimSpace(Head(parts))
         /\ IsListedOrder(Tail(u), Tail(parts))

AllBlank(parts) == \A i \in 1..Len(parts) : TrimSpace(parts[i]) = ""

----------------------------------------------------------------------------
(* Properties of the publisher's two writes                                *)

\* C26: the update of quotes:latest:<ticker> and the publish of the same
\* tick on quotes:pubsub are atomic: in every state the tick a hash holds
\* has been published, and the ticker of every published tick has its hash.
C26_HashAndPublishTogether ==
    /\ \A tk \in DOMAIN latest :
          \E i \in 1..Len(pubsub) :
              /\ pubsub[i].Ticker = tk
              /\ pubsub[i].Price = latest[tk].price
              /\ pubsub[i].Timestamp = latest[tk].ts_ms
    /\ \A i \in 1..Len(pubsub) : pubsub[i].Ticker \in DOMAIN latest

\* An entry of normalized:events whose ticker, price or ts_ms is missing or
\* does not parse.
Malformed(v) ==
    \/ v.ticker.t # "str"
    \/ v.price.t # "str" \/ v.price.form # "numeral"
    \/ v.ts_ms.t # "str" \/ v.ts_ms.form # "numeral" \/ v.ts_ms.val.nano # 0

\* C27: for an entry of normalized:events whose ticker, price or ts_ms is
\* missing or unparseable the publisher writes no quotes:latest hash,
\* publishes nothing on quotes:pubsub and adds one to CachePubErrors.
C27_MalformedIsSkipped ==
    [][(PublisherHandles /\ Malformed(normalized[plast + 1])) =>
          /\ latest' = latest
          /\ pubsub' = pubsub
          /\ cachePubErrors' = cachePubErrors + 1
          /\ cachePubCounter' = cachePubCounter]_vars

----------------------------------------------------------------------------
(* Properties of the detector's windows                                    *)

\* C28: the windows are independent per ticker. A tick of ticker A makes A's
\* window only when A has none, otherwise it keeps the window and writes
\* one slot of it; the window of every other ticker keeps its buffer, sums,
\* index and full flag. A payload that is not a tick's JSON changes no
\* window, emits nothing and adds one to AnomalyErrors.
C28_WindowsAreIndependent ==
    [][/\ Cardinality(Added) <= 1
       /\ DOMAIN windows' = DOMAIN windows \cup Added
       /\ \A tk \in DOMAIN windows :
            IF tk \in Added
            THEN /\ Len(windows'[tk].buf) = Len(windows[tk].buf)
                 /\ \A j \in 1..Len(windows[tk].buf) :
                        j # windows[tk].idx + 1 =>
                            windows'[tk].buf[j] = windows[tk].buf[j]
                 /\ windows'[tk].full \/ windows'[tk].idx = windows[tk].idx + 1
            ELSE windows'[tk] = windows[tk]
       /\ (Added = {} /\ heard' # heard) =>
            /\ windows' = windows
            /\ anomalyErrors' = anomalyErrors + 1
            /\ emitted' = emitted /\ anomStream' = anomStream
            /\ anomIndex' = anomIndex /\ anomalyCounter' = anomalyCounter]_vars

C28_Witness ==
    /\ cfg.AnomalyWindowSize = 2
    /\ DOMAIN windows = {"BTCUSD", "ETHUSD"}
    /\ Len(hist["BTCUSD"]) = 2
    /\ Len(hist["ETHUSD"]) = 1
    /\ windows["BTCUSD"].buf[1] # 0 /\ windows["BTCUSD"].buf[2] # 0
    /\ heard = 4
    /\ anomalyErrors >= 1

----------------------------------------------------------------------------
(* Properties of the shutdown of the detector and the publisher            *)

\* C29: the detector loop returns once it observes that the subscription
\* channel is closed or the context cancelled, and it returns for no other
\* reason; a closed channel delivers no tick; after the loop has returned no
\* window is updated and no anomaly is emitted. The publisher loop returns
\* after cancellation, for no other reason, and after it has returned it
\* writes no hash and publishes nothing.
C29_LoopsStopOnShutdown ==
    /\ [][(dpc' = "returned" /\ dpc # "returned") => (dctxDone \/ subClosed)]_vars
    /\ [][(subClosed \/ dpc = "returned") =>
             /\ windows' = windows /\ hist' = hist /\ emitted' = emitted
             /\ anomStream' = anomStream /\ anomIndex' = anomIndex
             /\ anomalyCounter' = anomalyCounter]_vars
    /\ [][dpc = "returned" => dpc' = "returned"]_vars
    /\ (dctxDone \/ subClosed) ~> (dpc = "returned")
    /\ [][(ppc' = "returned" /\ ppc # "returned") => pctxDone]_vars
    /\ [][ppc = "returned" =>
             /\ ppc' = "returned"
             /\ latest' = latest /\ pubsub' = pubsub /\ applied' = applied
             /\ cachePubCounter' = cachePubCounter
             /\ cachePubErrors' = cachePubErrors]_vars
    /\ pctxDone ~> (ppc = "returned")

C29_Witness ==
    /\ dpc = "returned" /\ subClosed /\ ~dctxDone
    /\ heard = 2 /\ Len(emitted) = 1
    /\ ppc = "returned" /\ pctxDone
    /\ applied = <<1, 2>> /\ Len(pubsub) >= 1

----------------------------------------------------------------------------
(* Properties of the shutdown of an ingest feed                            *)

\* Every task of the feed has terminated: the reader has returned, the
\* events channel is closed and each writer has returned.
FeedTerminated ==
    /\ rpc = "done"
    /\ eventsClosed
    /\ \A w \in Writers : wpc[w] = "returned"

\* C30: after the root context is cancelled every task of an ingest feed
\* terminates: the feed reader (streaming or polling) returns whatever the
\* feed delivers from then on, the events channel is then closed, and each of
\* the 5 writers returns.
C30_FeedTerminatesAfterCancel == ictxDone ~> FeedTerminated

----------------------------------------------------------------------------
(* Properties of the streaming reader's reconnects                         *)

\* The streaming reader has returned to ingestFeed.
ReaderReturned == rpc \in {"close", "done"}

\* C31: while the context is not cancelled the streaming ingestor never gives
\* up: a dial failure or a read error leads to another dial attempt and not
\* to the reader's return, the reader has returned (and the channel is
\* closed) only after cancellation, and a successfully received message
\* resets the reconnect backoff (its interval and its elapsed time).
C31_NeverGivesUp ==
    /\ [](ReaderReturned => ictxDone)
    /\ [][(~ictxDone /\ rpc \in {"dial", "read"}) => ~ReaderReturned']_vars
    /\ [][(rpc = "read" /\ rpc' = "send")
             => (boInterval' = 0 /\ boElapsed' = 0)]_vars

----------------------------------------------------------------------------
(* Properties of the ingest drop counter                                   *)

\* C33: the counter that an event dropped for backpressure increments
\* (metrics.IngestErrors, the only counter the readers' default branch
\* touches) is dedicated to such drops: it is incremented by one by every
\* discarded event and by nothing else, so a failed append to raw:events and
\* a failed poll leave it unchanged.
C33_DropCounterIsDedicated ==
    /\ [][dropped' # dropped => ingestErrors' = ingestErrors + 1]_vars
    /\ [][ingestErrors' # ingestErrors => dropped' # dropped]_vars

----------------------------------------------------------------------------
(* Properties of the breaker's state under concurrent calls                *)

NoCallInCheck == \A t \in Threads : pc[t] \notin {"cb_load", "cb_cas", "cb_half"}

\* C35: under any interleaving of concurrent AddToStream, HSet and Publish
\* calls on one Client, whenever no call is in the middle of
\* checkCircuitBreaker a closed breaker implies a failure counter below 5;
\* and the breaker becomes open only by the compare-and-swap of an attempt
\* that observed the counter at 5 or more.
C35_ClosedMeansBelowThreshold ==
    /\ []((NoCallInCheck /\ state = Closed) => failureCount < 5)
    /\ [][(state' = Open /\ state # Open) =>
            \E t \in Threads : pc[t] = "cb_cas" /\ pc'[t] # "cb_cas"]_vars
    /\ [][\A t \in Threads : (pc'[t] = "cb_cas" /\ pc[t] # "cb_cas") =>
            (pc[t] = "cb_load" /\ failureCount >= 5)]_vars

\* C35 witness: the breaker was opened by an attempt that had read the
\* counter at 5 while a concurrent success reset the counter: it is open
\* with a counter below 5 and no call inside checkCircuitBreaker.
C35_Witness ==
    /\ state = Open
    /\ failureCount < FailureThreshold
    /\ NoCallInCheck

----------------------------------------------------------------------------
(* Properties of the normalizer's accounting and of its pool               *)

\* C36: every message the reader takes from a batch increments exactly one
\* of the two counters, normalize-events on a successful append to
\* normalized:events and normalize-errors on an admission drop, a parse
\* failure, an unknown symbol or a failed append: at every moment the
\* messages seen are the normalized ones, the errors and the tasks still in
\* flight, and no step adds more than one to the two counters together.
C36_EveryMessageCountedOnce ==
    /\ [](Len(seen) = normalizeCounter + normalizeErrors + Cardinality(active))
    /\ [](normalizeCounter = Len(normalized))
    /\ [](normalizeErrors =
            Cardinality({i \in DOMAIN done :
                done[i] \in {"dropped", "parse_err", "unknown_symbol", "append_err"}}))
    /\ [][normalizeCounter' + normalizeErrors'
             \in {normalizeCounter + normalizeErrors,
                  normalizeCounter + normalizeErrors + 1}]_vars

\* C36 witness: a message was dropped at admission, one task has returned on
\* an unknown symbol and one on a parse failure, and tasks are in flight.
C36_Witness ==
    /\ \E i \in DOMAIN done : done[i] = "dropped"
    /\ \E i \in DOMAIN done : done[i] = "unknown_symbol"
    /\ \E i \in DOMAIN done : done[i] = "parse_err"
    /\ normalizeErrors = 3
    /\ active # {}

\* C37: every admitted normalization task terminates and gives its semaphore
\* slot back exactly once on every exit path (parse failure, unknown symbol,
\* failed append, success): a task's return takes exactly its own slot out
\* of the occupied ones, the occupied slots are always those of the running
\* tasks, and every slot is free whenever no task is running.
C37_SlotReleasedOnEveryPath ==
    /\ [](inflight = active)
    /\ [](active = {} => Cardinality(inflight) = 0)
    /\ [][\A i \in DOMAIN raw :
            (i \in active /\ i \notin active') => inflight' = inflight \ {i}]_vars
    /\ \A i \in 1..MaxRaw : (i \in active) ~> (i \notin active)

\* C37 witness: tasks have returned on each of the four paths in some run;
\* here one returned on a parse failure and one on an unknown symbol, and no
\* slot is held.
C37_Witness ==
    /\ \E i \in DOMAIN done : done[i] = "parse_err"
    /\ \E i \in DOMAIN done : done[i] = "unknown_symbol"
    /\ active = {}
    /\ inflight = {}

----------------------------------------------------------------------------
(* Properties of the close of a feed's events channel                      *)

\* C38: a feed's events channel is closed at most once and only after the
\* feed's reader has returned, so no event is sent on a closed channel; after
\* the close a writer returns without cancellation only once the buffered
\* events are received, and each writer does return.
C38_ClosedOnceAfterReader ==
    /\ [][eventsClosed => eventsClosed']_vars
    /\ [][(eventsClosed' /\ ~eventsClosed) => rpc = "close"]_vars
    /\ [](eventsClosed => rpc = "done")
    /\ [][offered' # offered => ~eventsClosed]_vars
    /\ [][\A w \in Writers :
            (wpc[w] = "run" /\ wpc'[w] = "returned" /\ ~ictxDone)
               => (eventsClosed /\ events = <<>>)]_vars
    /\ eventsClosed ~> (\A w \in Writers : wpc[w] = "returned")

\* C38 witness: the reader has returned without a cancellation, the channel
\* is closed with an event still buffered and the writers are running.
C38_Witness ==
    /\ eventsClosed
    /\ ~ictxDone
    /\ events # <<>>
    /\ \A w \in Writers : wpc[w] = "run"

----------------------------------------------------------------------------
(* Properties of the API's mutations of the anomalies list                 *)

\* C39: UpdateAnomaly(id) replaces only the element of the anomalies list
\* whose id equals id, also when a CreateAnomaly, a DeleteAnomaly or an
\* archival sweep on the list runs between its read of the list and its
\* indexed write: no other anomaly is overwritten.
C39_UpdateTouchesOnlyItsAnomaly ==
    [][(upd.pc = "lset" /\ upd'.pc = "idle") =>
          \A k \in 1..Len(alist) :
             alist'[k] # alist[k] => alist[k].id = upd.id]_vars

----------------------------------------------------------------------------
(* Properties of DB.Transaction                                            *)

\* C40: DB.Transaction commits exactly when fn returns nil without
\* panicking and rolls back otherwise, and it returns nil only if the commit
\* succeeded: a failed commit reaches the caller as a non-nil error.
C40_NilOnlyAfterCommit ==
    (fnOut.op = "Transaction" /\ fnOut.pc = "returned" /\ fnOut.tx # "none") =>
        /\ fnOut.tx \in {"committed", "commit_failed"} <=> fnOut.fnRes = "nil"
        /\ fnOut.tx = "rolled_back" <=> fnOut.fnRes \in {"error", "panic"}
        /\ fnOut.result = "nil" => fnOut.tx = "committed"

====
